---------------------------- MODULE Spec2Model ----------------------------
(***************************************************************************)
(* File <-> cache synchronisation engine of graph-tool's backend:          *)
(*   file-service.js        (src/data-source-service.js, lines 202-699)    *)
(*   data-source-service.js (src/data-source-service.js, lines 1-200)      *)
(*   db-service.js          (src/unnamed/part_009, lines 1-487)            *)
(*   server.js              (src/unnamed/part_009, lines 489-1093)         *)
(*                                                                         *)
(* The module holds several specifications over one set of variables.      *)
(* Each specification drives one group of variables and leaves the others  *)
(* at their initial value:                                                 *)
(*   SpecAtomic   atomicWrite / saveNode on the entity files               *)
(*   SpecSaves    overlapping saves on a disk that does not fail             *)
(*   SpecTracker  recentWrites, its timers and the watcher handlers        *)
(*   SpecGraph    the CRUD calls of db-service.js, the cache and the files  *)
(*   SpecSwitch   start(), shutdown, performHotReload and the source config *)
(*   SpecMutate   the mutation calls with failing background file tasks      *)
(*   SpecLoad     loadAllFiles and the documents saveNode / saveLink write    *)
(*   SpecWatch    the watcher handlers, the cache and the notifications       *)
(*   SpecConfig   addSource / removeSource / switchSource and their answers  *)
(*   SpecClear    clearAllData with a link handler in flight                 *)
(*   SpecOverlap  two switch requests in progress at once                    *)
(*   SpecNames    getNodeFilename / getLinkFilename / extractIdFromFilename  *)
(*   SpecFront    the browser's fetches and state.graph                      *)
(*   SpecDatabase startDatabase / stopDatabase and the database process      *)
(*   SpecWatchers startWatchers / stopWatchers and the chokidar instances     *)
(***************************************************************************)
EXTENDS Integers, Sequences, FiniteSets, Bags, TLC

VARIABLES
    files,      \* entity files on disk:   path -> content   (partial function)
    tmps,       \* "<path>.tmp" files:     path -> content
    baks,       \* "<path>.backup" files:  path -> content
    tasks,      \* background file tasks (pending promises of saveNode/...)
    now,            \* Date.now(), in milliseconds
    recentWrites,   \* the Map filepath -> timestamp of file-service.js
    timers,         \* pending setTimeout(() => recentWrites.delete(p), 2000)
    writes,         \* own writes whose fs call has not completed yet
    events,         \* file changes chokidar has seen and not yet reported
    handled,        \* what the watcher handler did with the last event
    cache,      \* the SurrealDB tables nodes and links: id -> record
    used,       \* ids generateId has handed out
    dcall,      \* the deleteNode call in progress, or the last one that returned
    proc,       \* "up" once start() has run, "down" after the process has exited
    config,     \* content of data-sources.json: [current, sources: id -> path]
    disk,       \* directory -> ids of the valid entity files in it
    fsDir,      \* FILES_DIR of file-service.js
    watch,      \* the chokidar watchers: [on, closing]
    inflight,   \* watcher handlers that have read their file, cache query pending
    hr,         \* the performHotReload call in progress, or how the last one ended
    scall,      \* the addSource / removeSource call in progress
    ret,        \* what the last createNode / updateNode / createLink call returned
    saved,      \* the entity handed to the last saveNode / saveLink call
    loaded,     \* what the last loadAllFiles call returned
    emitted,    \* the 'data-change' notifications emitted: their number and the last one
    live,       \* directories with a chokidar watcher pair that has not been closed (a bag)
    mapped,     \* ids given to getNodeFilename / getLinkFilename and what came back
    parked,     \* a second performHotReload call, waiting at one of its awaits
    front,      \* the browser: fetches under way and state.graph of GraphContext
    dbp         \* the database child process, the promises and timers of server.js

fileVars == <<files, tmps, baks, tasks>>
trackVars == <<now, recentWrites, timers, writes, events, handled>>
graphVars == <<cache, used, dcall>>
switchVars == <<proc, config, disk, fsDir, watch, inflight, hr, scall>>
callVars == <<ret>>
loadVars == <<saved, loaded>>
noteVars == <<emitted>>
moreVars == <<live, mapped, parked, front, dbp>>

vars == <<files, tmps, baks, tasks,
          now, recentWrites, timers, writes, events, handled,
          cache, used, dcall,
          proc, config, disk, fsDir, watch, inflight, hr, scall,
          ret, saved, loaded, emitted, live, mapped, parked, front, dbp>>

-----------------------------------------------------------------------------
(* Bounds of the model *)

MaxTasks == 4       \* file tasks that may be pending at the same time
MaxSaves == 2       \* SpecAtomic: saves that may overlap
MaxCalls == 1       \* SpecGraph: file tasks that may be pending when a call starts
MaxLabel == 2       \* distinct label values an entity may be saved with
MaxCounter == 3     \* addSource: the counters of `${id}-${counter}` that are tried
MaxConfigCalls == 3 \* SpecConfig: addSource / removeSource calls in one behaviour
MaxMutations == 2   \* SpecMutate: calls made in one behaviour
MaxLoads == 1       \* SpecLoad: loadAllFiles calls made in one behaviour
MaxReports == 2     \* SpecWatch: outside changes reported and not yet forgotten
MaxWatchers == 2    \* SpecWatchers: chokidar watcher pairs alive at the same time
MaxSuffix == 3      \* SpecNames: characters in the suffix of an id

-----------------------------------------------------------------------------
(* Entities, ids and file names *)

NodeSuffixes == {"a", "b"}
LinkSuffixes == {"x", "y"}

\* generateId: `${table}:${random}`; an id is the pair <<table, suffix>>.
NodeIds == {<<"nodes", s>> : s \in NodeSuffixes}
LinkIds == {<<"links", s>> : s \in LinkSuffixes}

\* getIdSuffix: idStr.split(':')[1]
getIdSuffix(id) == id[2]

\* getNodeFilePath / getLinkFilePath: path.join(DIR, `node_${suffix}.json`).
\* A path of the active directory is the pair <<kind, suffix>>.
getNodeFilePath(id) == <<"node", getIdSuffix(id)>>
getLinkFilePath(id) == <<"link", getIdSuffix(id)>>

NodePaths == {getNodeFilePath(id) : id \in NodeIds}
LinkPaths == {getLinkFilePath(id) : id \in LinkIds}
Paths == NodePaths \cup LinkPaths

Labels == 1..MaxLabel

\* JSON.stringify(normalizedNode): the file content of a node is the node.
NodeContent(id, label) == [id |-> id, label |-> label]

\* What an interrupted fs.writeFile leaves behind: a truncated document.
Partial == [partial |-> TRUE]

\* Remove key k from the partial function f / set key k of f to v.
Drop(f, k) == [q \in DOMAIN f \ {k} |-> f[q]]
Put(f, k, v) == [q \in DOMAIN f \cup {k} |-> IF q = k THEN v ELSE f[q]]

-----------------------------------------------------------------------------
(* Background file tasks.  A task is one pending call of saveNode/saveLink  *)
(* (or, further down, deleteNodeFile/deleteLinkFile); pc is the fs call it  *)
(* is about to issue.                                                       *)

\* Pending tasks carry no identity: the pending tasks are a bag of records.
Pending == BagToSet(tasks)

Task(op, p, c, pc) == [op |-> op, path |-> p, content |-> c, pc |-> pc]

CanSpawn(n) == BagCardinality(tasks) + n <= MaxTasks

Spawn(op, p, c, pc) ==
    tasks' = tasks (+) SetToBag({Task(op, p, c, pc)})

Goto(t, pc) ==
    tasks' = (tasks (-) SetToBag({t})) (+) SetToBag({[t EXCEPT !.pc = pc]})

\* saveNode (file-service.js): compute the path, serialise, call atomicWrite.
saveNode(node) ==
    Spawn("save", getNodeFilePath(node.id), node, "writeTmp")

\* saveLink (file-service.js)
saveLink(link) ==
    Spawn("save", getLinkFilePath(link.id), link, "writeTmp")

\* atomicWrite, step 1: await fs.writeFile(tempPath, content)
WriteTmpOk(t) ==
    /\ t.op = "save" /\ t.pc = "writeTmp"
    /\ tmps' = Put(tmps, t.path, t.content)
    /\ Goto(t, "renameBackup")
    /\ UNCHANGED <<files, baks>>

\* step 1 throws (disk full, ...): the temp file is missing or truncated;
\* control goes to the catch block.
WriteTmpFail(t) ==
    /\ t.op = "save" /\ t.pc = "writeTmp"
    /\ \/ tmps' = Put(tmps, t.path, Partial)
       \/ tmps' = tmps
    /\ Goto(t, "rollback")
    /\ UNCHANGED <<files, baks>>

\* step 2: try { await fs.rename(filepath, backupPath) } catch {}
RenameToBackupOk(t) ==
    LET p == t.path IN
    /\ t.op = "save" /\ t.pc = "renameBackup"
    /\ p \in DOMAIN files
    /\ baks' = Put(baks, p, files[p])
    /\ files' = Drop(files, p)
    /\ Goto(t, "renameTmp")
    /\ UNCHANGED tmps

\* step 2 throws ENOENT (there is no file yet): swallowed by the inner catch.
RenameToBackupNoFile(t) ==
    /\ t.op = "save" /\ t.pc = "renameBackup"
    /\ t.path \notin DOMAIN files
    /\ Goto(t, "renameTmp")
    /\ UNCHANGED <<files, tmps, baks>>

\* step 2 throws another error while the file exists: swallowed as well.
RenameToBackupFail(t) ==
    /\ t.op = "save" /\ t.pc = "renameBackup"
    /\ t.path \in DOMAIN files
    /\ Goto(t, "renameTmp")
    /\ UNCHANGED <<files, tmps, baks>>

\* step 3: await fs.rename(tempPath, filepath)
RenameTmpOk(t) ==
    LET p == t.path IN
    /\ t.op = "save" /\ t.pc = "renameTmp"
    /\ p \in DOMAIN tmps
    /\ files' = Put(files, p, tmps[p])
    /\ tmps' = Drop(tmps, p)
    /\ Goto(t, "unlinkBackup")
    /\ UNCHANGED baks

\* step 3 throws ENOENT: an overlapping save of the same path has already
\* renamed the shared temp file away.
RenameTmpNoFile(t) ==
    /\ t.op = "save" /\ t.pc = "renameTmp"
    /\ t.path \notin DOMAIN tmps
    /\ Goto(t, "rollback")
    /\ UNCHANGED <<files, tmps, baks>>

\* step 3 throws an I/O error although the temp file is there.
RenameTmpFail(t) ==
    /\ t.op = "save" /\ t.pc = "renameTmp"
    /\ t.path \in DOMAIN tmps
    /\ Goto(t, "rollback")
    /\ UNCHANGED <<files, tmps, baks>>

\* step 4: try { await fs.unlink(backupPath) } catch {} ; atomicWrite returns.
UnlinkBackup(t) ==
    /\ t.op = "save" /\ t.pc = "unlinkBackup"
    /\ baks' = Drop(baks, t.path)
    /\ Goto(t, "resolved")
    /\ UNCHANGED <<files, tmps>>

\* step 4 throws with the backup left in place: ignored.
UnlinkBackupFail(t) ==
    /\ t.op = "save" /\ t.pc = "unlinkBackup"
    /\ t.path \in DOMAIN baks
    /\ Goto(t, "resolved")
    /\ UNCHANGED <<files, tmps, baks>>

\* catch: try { await fs.rename(backupPath, filepath) } catch {} ; throw err
RollbackRename(t) ==
    LET p == t.path IN
    /\ t.op = "save" /\ t.pc = "rollback"
    /\ IF p \in DOMAIN baks
       THEN /\ files' = Put(files, p, baks[p])
            /\ baks' = Drop(baks, p)
       ELSE UNCHANGED <<files, baks>>
    /\ Goto(t, "rejected")
    /\ UNCHANGED tmps

\* the rollback rename throws although the backup is there: "Nothing to restore".
RollbackRenameFail(t) ==
    /\ t.op = "save" /\ t.pc = "rollback"
    /\ t.path \in DOMAIN baks
    /\ Goto(t, "rejected")
    /\ UNCHANGED <<files, tmps, baks>>

\* fs.unlink whose ENOENT is rethrown like any other error.
UnlinkFileStrict(t) ==
    /\ t.op = "delete" /\ t.pc = "unlink"
    /\ files' = Drop(files, t.path)
    /\ Goto(t, IF t.path \in DOMAIN files THEN "resolved" ELSE "rejected")
    /\ UNCHANGED <<tmps, baks>>

\* deleteNodeFile / deleteLinkFile: await fs.unlink(filepath); ENOENT is ignored.
UnlinkFile(t) ==
    /\ t.op = "delete" /\ t.pc = "unlink"
    /\ files' = Drop(files, t.path)
    /\ Goto(t, "resolved")
    /\ UNCHANGED <<tmps, baks>>

\* fs.unlink throws something other than ENOENT (EACCES, EBUSY, ...): the
\* file stays and the error is rethrown to the caller.
UnlinkFileFail(t) ==
    /\ t.op = "delete" /\ t.pc = "unlink"
    /\ t.path \in DOMAIN files
    /\ Goto(t, "rejected")
    /\ UNCHANGED <<files, tmps, baks>>

\* deleteNodeFile(id) is called: the path is computed and fs.unlink is issued.
deleteNodeFile(id) ==
    Spawn("delete", getNodeFilePath(id), Partial, "unlink")

\* The promise of the task is settled and its handler (.catch in the caller)
\* has run: the task is gone.
Settle(t) ==
    /\ t.pc \in {"resolved", "rejected"}
    /\ tasks' = tasks (-) SetToBag({t})
    /\ UNCHANGED <<files, tmps, baks>>

\* No file task is pending.
FilesQuiet == tasks = EmptyBag

-----------------------------------------------------------------------------
(* The cache and the CRUD calls of db-service.js.                           *)

Node(id, label) == [id |-> id, label |-> label]
Link(id, s, g) == [id |-> id, source_id |-> s, target_id |-> g]

CachedNodes == {id \in DOMAIN cache : id[1] = "nodes"}
CachedLinks == {id \in DOMAIN cache : id[1] = "links"}

\* WHERE source_id = $id OR target_id = $id
ConnectedSourceOnly(c, id) ==
    {l \in DOMAIN c : l[1] = "links" /\ c[l].source_id = id}
Connected(c, id) ==
    {l \in DOMAIN c : l[1] = "links" /\ (c[l].source_id = id \/ c[l].target_id = id)}

NoCall == [pc |-> "idle", id |-> <<>>, connected |-> {}, deletedLinks |-> 0,
           alone |-> FALSE, preCache |-> <<>>, preFiles |-> <<>>]

\* Another call runs while a deleteNode call is in progress (the call is no
\* longer the only thing that happened) or after it has returned (its record
\* is forgotten).
Disturb == dcall' = IF dcall.pc \in {"idle", "returned"} THEN NoCall
                    ELSE [dcall EXCEPT !.alone = FALSE, !.preCache = <<>>, !.preFiles = <<>>]

\* Nothing has been returned yet.
NoReturn == [call |-> "none", value |-> <<>>, n |-> 0]

\* `return node` / `return link` at the end of a CRUD call; n counts the
\* calls that have returned.
Return(call, value) == ret' = [call |-> call, value |-> value, n |-> ret.n + 1]

\* data.label is undefined or "" in the request body.
NoLabel == 0

\* data.source_id / data.target_id is undefined in the request body.
NoEndpoint == <<"nodes", "">>

\* createNode that starts the save and leaves the cache to be filled later.
createNodeFileFirst(id, label) ==
    /\ id \in NodeIds \ used
    /\ CanSpawn(1)
    /\ used' = used \cup {id}
    /\ saveNode(Node(id, label))
    /\ Disturb
    /\ UNCHANGED <<cache, files, tmps, baks>>

\* createNode(data): generateId, CREATE in the cache, then saveNode in the
\* background (its rejection is only logged); returns the node.
createNode(id, label) ==
    /\ id \in NodeIds \ used
    /\ CanSpawn(1)
    /\ used' = used \cup {id}
    /\ cache' = Put(cache, id, Node(id, label))
    /\ saveNode(Node(id, label))
    /\ Disturb
    /\ UNCHANGED <<files, tmps, baks>>

\* updateNode(id, data) of a node the cache holds: UPDATE sets the label, the
\* saveNode of the updated record is started in the background, the updated
\* record is returned.
updateNode(id, label) ==
    /\ id \in CachedNodes
    /\ CanSpawn(1)
    /\ cache' = Put(cache, id, [cache[id] EXCEPT !.label = label])
    /\ saveNode([cache[id] EXCEPT !.label = label])
    /\ Disturb
    /\ UNCHANGED <<used, files, tmps, baks>>

\* createLink(data): generateId, CREATE in the cache with the endpoints the
\* caller gave, then saveLink in the background; returns the link.
createLink(id, s, g) ==
    /\ id \in LinkIds \ used
    /\ CanSpawn(1)
    /\ used' = used \cup {id}
    /\ cache' = Put(cache, id, Link(id, s, g))
    /\ saveLink(Link(id, s, g))
    /\ Disturb
    /\ UNCHANGED <<files, tmps, baks>>

\* deleteLink(id): DELETE in the cache, then deleteLinkFile in the background.
deleteLink(id) ==
    /\ CanSpawn(1)
    /\ cache' = Drop(cache, id)
    /\ Spawn("delete", getLinkFilePath(id), Partial, "unlink")
    /\ Disturb
    /\ UNCHANGED <<used, files, tmps, baks>>

\* deleteNode(id) is called; the SELECT of the connected links is on its way.
DeleteNodeCall(id) ==
    /\ dcall.pc \in {"idle", "returned"}
    /\ dcall' = [pc |-> "select", id |-> id, connected |-> {}, deletedLinks |-> 0,
                 alone |-> FilesQuiet,
                 preCache |-> IF FilesQuiet THEN cache ELSE <<>>,
                 preFiles |-> IF FilesQuiet THEN files ELSE <<>>]
    /\ UNCHANGED <<cache, used, files, tmps, baks, tasks>>

\* 1. SELECT * FROM links WHERE source_id = $id OR target_id = $id
DeleteNodeSelect ==
    /\ dcall.pc = "select"
    /\ dcall' = [dcall EXCEPT !.pc = "deleteLinks",
                              !.connected = Connected(cache, dcall.id)]
    /\ UNCHANGED <<cache, used, files, tmps, baks, tasks>>

\* 2. DELETE FROM links WHERE source_id = $id OR target_id = $id
DeleteNodeLinks ==
    /\ dcall.pc = "deleteLinks"
    /\ cache' = [e \in DOMAIN cache \ Connected(cache, dcall.id) |-> cache[e]]
    /\ dcall' = [dcall EXCEPT !.pc = "deleteNode"]
    /\ UNCHANGED <<used, files, tmps, baks, tasks>>

\*    DELETE ${id}
DeleteNodeRecord ==
    /\ dcall.pc = "deleteNode"
    /\ cache' = Drop(cache, dcall.id)
    /\ dcall' = [dcall EXCEPT !.pc = "files"]
    /\ UNCHANGED <<used, files, tmps, baks, tasks>>

\* 3.-4. deleteNodeFile(id) and deleteLinkFile(link.id) for every connected
\* link are started in the background; the call returns
\* {success, id, deletedLinks: connectedLinks.length}.
DeleteNodeFiles ==
    LET targets == {getNodeFilePath(dcall.id)}
                      \cup {getLinkFilePath(l) : l \in dcall.connected}
    IN
    /\ dcall.pc = "files"
    /\ CanSpawn(Cardinality(targets))
    /\ tasks' = tasks (+) SetToBag({Task("delete", p, Partial, "unlink") : p \in targets})
    /\ dcall' = [dcall EXCEPT !.pc = "returned",
                              !.deletedLinks = Cardinality(dcall.connected)]
    /\ UNCHANGED <<cache, used, files, tmps, baks>>

-----------------------------------------------------------------------------
(* Write tracker and change watcher (file-service.js).                      *)

GRACE_MS == 1000                \* isOurWrite: (Date.now() - timestamp) < 1000
CLEANUP_MS == 2000              \* setTimeout(() => recentWrites.delete(..), 2000)
STABILITY_THRESHOLD == 500      \* awaitWriteFinish.stabilityThreshold

MaxTicks == 5       \* the clock runs for MaxTicks steps of STABILITY_THRESHOLD ms

\* The clock advances in steps of the watcher's stability threshold.
Tick == STABILITY_THRESHOLD
StartTime == Tick               \* Date.now() is positive
EndTime == StartTime + MaxTicks * Tick

TrackPaths == {getNodeFilePath(<<"nodes", "a">>), getLinkFilePath(<<"links", "x">>)}

\* An event that no own write caused carries no mark: a time before the
\* clock started stands for it.
NoMark == StartTime - Tick

\* isOurWrite(filepath)
isOurWrite(filepath) ==
    IF filepath \notin DOMAIN recentWrites
    THEN FALSE
    ELSE (now - recentWrites[filepath]) < GRACE_MS

\* saveNode / saveLink up to the await of atomicWrite:
\*   recentWrites.set(filepath, Date.now()); ... atomicWrite(filepath, content)
SaveStart(p) ==
    /\ recentWrites' = Put(recentWrites, p, now)
    /\ writes' = writes \cup {[path |-> p, op |-> "save", mark |-> now]}
    /\ UNCHANGED <<now, timers, events, handled>>

\* atomicWrite has returned: the file changed on disk (chokidar will report it
\* once it has been stable for the threshold) and the cleanup timer is set.
SaveDone(w) ==
    /\ w \in writes /\ w.op = "save"
    /\ writes' = writes \ {w}
    /\ events' = events \cup
          {[path |-> w.path, kind |-> "change", mark |-> w.mark, from |-> now + STABILITY_THRESHOLD]}
    /\ timers' = timers \cup {[path |-> w.path, due |-> now + CLEANUP_MS]}
    /\ UNCHANGED <<now, recentWrites, handled>>

\* atomicWrite has thrown: saveNode rejects before it reaches setTimeout.
SaveFailed(w) ==
    /\ w \in writes /\ w.op = "save"
    /\ writes' = writes \ {w}
    /\ UNCHANGED <<now, recentWrites, timers, events, handled>>

\* deleteNodeFile / deleteLinkFile up to the await of fs.unlink
DeleteStart(p) ==
    /\ recentWrites' = Put(recentWrites, p, now)
    /\ writes' = writes \cup {[path |-> p, op |-> "delete", mark |-> now]}
    /\ UNCHANGED <<now, timers, events, handled>>

\* fs.unlink has removed the file: chokidar reports the unlink, the timer is set.
DeleteDone(w) ==
    /\ w \in writes /\ w.op = "delete"
    /\ writes' = writes \ {w}
    /\ events' = events \cup
          {[path |-> w.path, kind |-> "unlink", mark |-> w.mark, from |-> now]}
    /\ timers' = timers \cup {[path |-> w.path, due |-> now + CLEANUP_MS]}
    /\ UNCHANGED <<now, recentWrites, handled>>

\* fs.unlink has thrown (ENOENT is swallowed, others rethrown): no timer is set.
DeleteFailed(w) ==
    /\ w \in writes /\ w.op = "delete"
    /\ writes' = writes \ {w}
    /\ UNCHANGED <<now, recentWrites, timers, events, handled>>

\* The callback of setTimeout: recentWrites.delete(filepath)
TimerFires(tm) ==
    /\ tm \in timers /\ tm.due <= now
    /\ timers' = timers \ {tm}
    /\ recentWrites' = Drop(recentWrites, tm.path)
    /\ UNCHANGED <<now, writes, events, handled>>

\* An outside process changes or removes a watched file.
ExternalEdit(p, kind) ==
    /\ events' = events \cup
          {[path |-> p, kind |-> kind, mark |-> NoMark,
            from |-> IF kind = "unlink" THEN now ELSE now + STABILITY_THRESHOLD]}
    /\ UNCHANGED <<now, recentWrites, timers, writes, handled>>

\* handleFileAdded / handleFileChanged / handleFileDeleted: the event is
\* skipped when isOurWrite(filepath); otherwise the handler goes on to
\* upsertFromFile / deleteFromFile and eventEmitter.emit('data-change', ...).
\* handled records the decision: whether an own write caused the event (own),
\* whether it came within GRACE_MS of that write's mark (inGrace), and
\* whether the handler returned early (skipped).
handleFileEvent(e) ==
    /\ e \in events /\ e.from <= now
    /\ events' = events \ {e}
    /\ handled' = [kind |-> e.kind, own |-> e.mark # NoMark,
                   inGrace |-> e.mark # NoMark /\ now - e.mark < GRACE_MS,
                   skipped |-> isOurWrite(e.path)]
    /\ UNCHANGED <<now, recentWrites, timers, writes>>

\* Time passes.  A timer that is due runs, and an event whose file has been
\* stable for the threshold is reported, before the clock moves on.
Advance ==
    /\ now < EndTime
    /\ \A tm \in timers : tm.due > now
    /\ \A e \in events : e.from > now
    /\ now' = now + Tick
    /\ UNCHANGED <<recentWrites, timers, writes, events, handled>>

NoEvent == [kind |-> "none", own |-> FALSE, inGrace |-> FALSE, skipped |-> FALSE]

-----------------------------------------------------------------------------
(* Data sources, startup and hot reload (data-source-service.js, server.js, *)
(* file-service.js).                                                        *)

MaxHandlers == 1    \* watcher handlers that may be in flight at the same time

\* Directories of the machine.
ProjectFiles == "/project/files"
ServicesFiles == "/project/backend/src/services/files"
ExternalFiles == "/ext"
Dirs == {ProjectFiles, ServicesFiles, ExternalFiles}

\* config.js: FILES_DIR = path.join(__dirname, '../../../files'), __dirname
\* being backend/src/utils.
FILES_DIR == ProjectFiles

\* Paths a source of data-sources.json may carry: the relative default of
\* getConfig, the same directory written as an absolute path, an external
\* directory, and a path that names a regular file.
RelativeDefault == "./files"
NotADirectory == "/notadir"
DefaultPaths == {RelativeDefault, ProjectFiles}

\* path.resolve(__dirname, sourcePath) in data-source-service.js and
\* file-service.js, __dirname being backend/src/services: an absolute path is
\* kept, a relative one is taken from the services directory.
Resolve(p) == IF p = RelativeDefault THEN ServicesFiles ELSE p

\* validateSourcePath(sourcePath).valid: mkdir -p of nodes/ and links/ and
\* the stat succeed unless the path is not a directory.
validateSourcePath(p) == Resolve(p) \in Dirs

\* The ids a request may name; addSource stores under the first free one of
\* id, id-1, ...
AuxIds == <<"aux">>

\* `${id}-${counter}` for the ids addSource is called with.
Numbered(id, counter) ==
    IF id = "aux" THEN <<"aux-1", "aux-2", "aux-3", "aux-4">>[counter]
    ELSE IF id = "ext" THEN <<"ext-1", "ext-2", "ext-3", "ext-4">>[counter]
    ELSE <<"constructor-1", "constructor-2", "constructor-3", "constructor-4">>[counter]

\* config.sources is the plain object JSON.parse returns: config.sources[id]
\* is truthy for every own key (each source is an object) and also for the
\* property names the object inherits from Object.prototype.
Inherited == {"constructor"}
HasSource(cfg, id) == id \in DOMAIN cfg.sources \/ id \in Inherited
SourceIds == {"default", "ext", "broken", "aux"}

\* The entities whose files may exist, and the directory each lives in.
NodeA == <<"nodes", "a">>
NodeB == <<"nodes", "b">>
LinkX == <<"links", "x">>
Entity(id) == IF id[1] = "nodes" THEN Node(id, 1) ELSE Link(id, NodeB, NodeB)
HomeIds(d) ==
    IF d = ProjectFiles THEN {NodeA}
    ELSE IF d = ExternalFiles THEN {NodeB, LinkX}
    ELSE {}

NoConfig == [current |-> "", sources |-> <<>>]
NoWatch == [on |-> "none", closing |-> FALSE]
NoSwitch == [pc |-> "idle", target |-> "", cfg |-> NoConfig, from |-> "",
             fromDir |-> "none", saved |-> FALSE, rejected |-> FALSE,
             cleared |-> FALSE, loaded |-> {}, reload |-> FALSE,
             recoveryError |-> FALSE, thrown |-> "none"]
NoOp == [pc |-> "idle", kind |-> "", id |-> "", path |-> "", cfg |-> NoConfig]

\* populateFromFiles(nodes, links): UPSERT of every loaded entity.
populateFromFiles(c, ids) ==
    [id \in DOMAIN c \cup ids |-> IF id \in ids THEN Entity(id) ELSE c[id]]

\* loadAllFiles(): the valid entity files of NODES_DIR and LINKS_DIR.
loadAllFiles == disk[fsDir]

\* stopWatchers(): close() is called on both watchers and the handles are set
\* to null.  close() detaches the listeners at once and returns a promise for
\* the release of the watched handles; the promise is dropped.
stopWatchers ==
    [on |-> "none", closing |-> watch.closing \/ watch.on # "none"]

\* startWatchers(): chokidar.watch(NODES_DIR, ...), chokidar.watch(LINKS_DIR, ...)
startWatchers(w, d) == [w EXCEPT !.on = d]

\* The close() promises of the closed watchers resolve.
WatcherClosed ==
    /\ watch.closing
    /\ watch' = [watch EXCEPT !.closing = FALSE]
    /\ UNCHANGED <<proc, config, disk, fsDir, inflight, hr, scall, cache>>

\* start(): FILES_DIR is config.FILES_DIR; the database is started on its
\* file:// store (the records of the previous run are still in it); the files
\* are loaded and upserted; the watchers are started.
start ==
    /\ proc = "down"
    /\ proc' = "up"
    /\ fsDir' = FILES_DIR
    /\ cache' = populateFromFiles(cache, disk[FILES_DIR])
    /\ watch' = startWatchers(NoWatch, FILES_DIR)
    /\ UNCHANGED <<config, disk, inflight, hr, scall>>

\* SIGTERM / SIGINT: stopWatchers, disconnect, stopDatabase, process.exit(0).
\* Everything in memory is gone; the database store, the config file and the
\* entity files stay.
Shutdown ==
    /\ proc = "up"
    /\ proc' = "down"
    /\ fsDir' = FILES_DIR
    /\ watch' = NoWatch
    /\ inflight' = {}
    /\ hr' = NoSwitch
    /\ scall' = NoOp
    /\ UNCHANGED <<config, disk, cache>>

\* An outside process writes (creates or overwrites) the entity file of id in
\* directory d.  When a watcher listens on d, handleFileAdded/Changed runs up
\* to its cache query (isOurWrite is false, readFile, JSON.parse).
Watching(d) == proc = "up" /\ watch.on = d

ExternalWrite(d, id) ==
    /\ id \in HomeIds(d)
    /\ Watching(d) => Cardinality(inflight) < MaxHandlers
    /\ disk' = [disk EXCEPT ![d] = @ \cup {id}]
    /\ inflight' = IF Watching(d)
                   THEN inflight \cup {[kind |-> "upsert", id |-> id]}
                   ELSE inflight
    /\ UNCHANGED <<proc, config, fsDir, watch, hr, scall, cache>>

\* An outside process removes the entity file of id in directory d;
\* handleFileDeleted runs up to its cache query.
ExternalRemove(d, id) ==
    /\ id \in disk[d]
    /\ Watching(d) => Cardinality(inflight) < MaxHandlers
    /\ disk' = [disk EXCEPT ![d] = @ \ {id}]
    /\ inflight' = IF Watching(d)
                   THEN inflight \cup {[kind |-> "delete", id |-> id]}
                   ELSE inflight
    /\ UNCHANGED <<proc, config, fsDir, watch, hr, scall, cache>>

\* handleFileAdded/Changed: await dbService.upsertFromFile(data);
\* handleFileDeleted: await dbService.deleteFromFile(id).
HandlerQuery(h) ==
    /\ h \in inflight
    /\ cache' = IF h.kind = "upsert" THEN Put(cache, h.id, Entity(h.id))
                ELSE Drop(cache, h.id)
    /\ inflight' = inflight \ {h}
    /\ UNCHANGED <<proc, config, disk, fsDir, watch, hr, scall>>

\* addSource(id, data), up to the answer of getConfig().
AddGetConfig(id, p) ==
    /\ proc = "up" /\ scall.pc = "idle"
    /\ scall' = [pc |-> "save", kind |-> "add", id |-> id, path |-> p, cfg |-> config]
    /\ UNCHANGED <<proc, config, disk, fsDir, watch, inflight, hr, cache>>

\* let finalId = id; while (config.sources[finalId]) finalId = `${id}-${counter}`
Free(cfg, id) == {c \in 1..MaxCounter : ~HasSource(cfg, Numbered(id, c))}
FinalId(cfg, id) ==
    IF ~HasSource(cfg, id) THEN id
    ELSE Numbered(id, CHOOSE c \in Free(cfg, id) : \A d \in Free(cfg, id) : c <= d)

\* What addSource returns: the id it used, or the error it throws.
addSource(cfg, id, p) ==
    IF validateSourcePath(p) THEN FinalId(cfg, id) ELSE "Invalid data source path"

\* What removeSource does: one of its three throws, or the delete.
removeSource(cfg, id) ==
    IF id = "default" THEN "Cannot remove default data source"
    ELSE IF cfg.current = id THEN "Cannot remove currently active data source"
    ELSE IF ~HasSource(cfg, id) THEN "not found"
    ELSE "removed"

\* addSource, the rest: validateSourcePath, then saveConfig of the config that
\* was read, with the new entry.
AddSave ==
    /\ scall.pc = "save" /\ scall.kind = "add"
    /\ HasSource(scall.cfg, scall.id) => Free(scall.cfg, scall.id) # {}
    /\ config' = IF validateSourcePath(scall.path)
                 THEN [scall.cfg EXCEPT !.sources = Put(@, FinalId(scall.cfg, scall.id), scall.path)]
                 ELSE config
    /\ scall' = NoOp
    /\ UNCHANGED <<proc, disk, fsDir, watch, inflight, hr, cache>>

\* removeSource(id), up to the answer of getConfig().
RemoveGetConfig(id) ==
    /\ proc = "up" /\ scall.pc = "idle"
    /\ scall' = [pc |-> "save", kind |-> "remove", id |-> id, path |-> "", cfg |-> config]
    /\ UNCHANGED <<proc, config, disk, fsDir, watch, inflight, hr, cache>>

\* removeSource, the rest: the three checks, then saveConfig of the config
\* that was read, without the entry.
RemoveSave ==
    /\ scall.pc = "save" /\ scall.kind = "remove"
    /\ config' = IF removeSource(scall.cfg, scall.id) = "removed"
                 THEN [scall.cfg EXCEPT !.sources = Drop(@, scall.id)]
                 ELSE config
    /\ scall' = NoOp
    /\ UNCHANGED <<proc, disk, fsDir, watch, inflight, hr, cache>>

\* PUT /api/data-sources/current: performHotReload(newSourceId) is called and
\* switchSource has the answer of getConfig().
HRGetConfig(id) ==
    /\ proc = "up" /\ hr.pc = "idle"
    /\ hr' = [NoSwitch EXCEPT !.pc = "switch", !.target = id, !.cfg = config,
                              !.from = config.current, !.fromDir = fsDir]
    /\ UNCHANGED <<proc, config, disk, fsDir, watch, inflight, scall, cache>>

\* 1. switchSource, the rest: unknown id or invalid path throw; otherwise
\* config.current = newSourceId is saved (in the config that was read).
switchSource ==
    /\ hr.pc = "switch"
    /\ IF /\ hr.target \in DOMAIN hr.cfg.sources
          /\ validateSourcePath(hr.cfg.sources[hr.target])
       THEN /\ config' = [hr.cfg EXCEPT !.current = hr.target]
            /\ hr' = [hr EXCEPT !.pc = "stop", !.saved = TRUE]
       ELSE /\ config' = config
            /\ hr' = [hr EXCEPT !.pc = "recover", !.rejected = TRUE]
    /\ UNCHANGED <<proc, disk, fsDir, watch, inflight, scall, cache>>

\* 2. fileService.stopWatchers(); 3. clearAllData() issues DELETE FROM links.
HRStopWatchers ==
    /\ hr.pc = "stop"
    /\ watch' = stopWatchers
    /\ hr' = [hr EXCEPT !.pc = "clearLinks"]
    /\ UNCHANGED <<proc, config, disk, fsDir, inflight, scall, cache>>

\* clearAllData: DELETE FROM links is done, DELETE FROM nodes is issued.
HRClearLinks ==
    /\ hr.pc = "clearLinks"
    /\ cache' = [id \in CachedNodes |-> cache[id]]
    /\ hr' = [hr EXCEPT !.pc = "clearNodes"]
    /\ UNCHANGED <<proc, config, disk, fsDir, watch, inflight, scall>>

\* clearAllData: DELETE FROM nodes is done; 4. updateDataSourcePaths(newSource.path);
\* 5. loadAllFiles() is called.
HRClearNodes ==
    /\ hr.pc = "clearNodes"
    /\ cache' = [id \in CachedLinks |-> cache[id]]
    /\ fsDir' = Resolve(hr.cfg.sources[hr.target])
    /\ hr' = [hr EXCEPT !.pc = "load", !.cleared = TRUE]
    /\ UNCHANGED <<proc, config, disk, watch, inflight, scall>>

\* 5. loadAllFiles() has read the directories; 6. populateFromFiles is called.
HRLoadAllFiles ==
    /\ hr.pc = "load"
    /\ hr' = [hr EXCEPT !.pc = "populate", !.loaded = loadAllFiles]
    /\ UNCHANGED <<proc, config, disk, fsDir, watch, inflight, scall, cache>>

\* 6. populateFromFiles is done; 7. reloadWatchers(): stopWatchers,
\* recentWrites.clear(), ensureDirectories() is called.
HRPopulate ==
    /\ hr.pc = "populate"
    /\ cache' = populateFromFiles(cache, hr.loaded)
    /\ watch' = stopWatchers
    /\ hr' = [hr EXCEPT !.pc = "restart"]
    /\ UNCHANGED <<proc, config, disk, fsDir, inflight, scall>>

\* 7. reloadWatchers, the rest: startWatchers(); 8. the reload broadcast;
\* performHotReload returns newSource.
HRReloadWatchers ==
    /\ hr.pc = "restart"
    /\ watch' = startWatchers(watch, fsDir)
    /\ hr' = [hr EXCEPT !.pc = "done", !.reload = TRUE]
    /\ UNCHANGED <<proc, config, disk, fsDir, inflight, scall, cache>>

\* The route handler has answered (the source, or status 500 and the error).
HRAnswered ==
    /\ hr.pc \in {"done", "failed"}
    /\ hr' = NoSwitch
    /\ UNCHANGED <<proc, config, disk, fsDir, watch, inflight, scall, cache>>

\* The awaited call of the step throws (a database query of clearAllData or
\* populateFromFiles, the mkdir of ensureDirectories): control goes to catch.
HRStepThrows ==
    /\ hr.pc \in {"clearLinks", "clearNodes", "populate", "restart"}
    /\ hr' = [hr EXCEPT !.pc = "recover"]
    /\ UNCHANGED <<proc, config, disk, fsDir, watch, inflight, scall, cache>>

\* catch: getCurrentSource() has the answer of getConfig();
\* updateDataSourcePaths(currentSource.path); reloadWatchers(): stopWatchers,
\* recentWrites.clear(), ensureDirectories() is called.  getCurrentSource
\* throws when current is not a source: "Recovery failed" is logged.
HRRecover ==
    /\ hr.pc = "recover"
    /\ IF config.current \in DOMAIN config.sources
       THEN /\ fsDir' = Resolve(config.sources[config.current])
            /\ watch' = stopWatchers
            /\ hr' = [hr EXCEPT !.pc = "recoverWatch"]
       ELSE /\ hr' = [hr EXCEPT !.pc = "failed", !.recoveryError = TRUE,
                                     !.thrown = "error"]
            /\ UNCHANGED <<fsDir, watch>>
    /\ UNCHANGED <<proc, config, disk, inflight, scall, cache>>

\* reloadWatchers, the rest: startWatchers(); loadAllFiles() is called.
HRRecoverWatch ==
    /\ hr.pc = "recoverWatch"
    /\ watch' = startWatchers(watch, fsDir)
    /\ hr' = [hr EXCEPT !.pc = "recoverLoad"]
    /\ UNCHANGED <<proc, config, disk, fsDir, inflight, scall, cache>>

\* loadAllFiles() has read the directories; populateFromFiles is called.
HRRecoverLoad ==
    /\ hr.pc = "recoverLoad"
    /\ hr' = [hr EXCEPT !.pc = "recoverPopulate", !.loaded = loadAllFiles]
    /\ UNCHANGED <<proc, config, disk, fsDir, watch, inflight, scall, cache>>

\* populateFromFiles is done; throw error: performHotReload rejects.
HRRecoverPopulate ==
    /\ hr.pc = "recoverPopulate"
    /\ cache' = populateFromFiles(cache, hr.loaded)
    /\ hr' = [hr EXCEPT !.pc = "failed", !.thrown = "error"]
    /\ UNCHANGED <<proc, config, disk, fsDir, watch, inflight, scall>>

\* The awaited call of a recovery step throws (the mkdir of ensureDirectories
\* in reloadWatchers, a database query of populateFromFiles): the inner catch
\* logs "Recovery failed" and performHotReload rejects with the first error.
HRRecoveryThrows ==
    /\ hr.pc \in {"recoverWatch", "recoverPopulate"}
    /\ hr' = [hr EXCEPT !.pc = "failed", !.recoveryError = TRUE, !.thrown = "error"]
    /\ UNCHANGED <<proc, config, disk, fsDir, watch, inflight, scall, cache>>

-----------------------------------------------------------------------------
(* Documents: what saveNode / saveLink write and what loadAllFiles reads.   *)
(* An entity object is a function from field names to values; the text of  *)
(* a file is [json |-> value] when it is well-formed JSON and Partial when   *)
(* it is not.                                                               *)

\* JavaScript's null and undefined as values of the numeric field x.
Null == 0 - 1
Undefined == 0 - 2

\* The id as the RecordId object {tb, id} the cache hands out.
RecordId(tb, s) == <<tb, s, "RecordId">>

\* idToString: a string stays, an object {tb, id} becomes `${tb}:${id}`.
idToString(id) == IF Len(id) = 3 THEN <<id[1], id[2]>> ELSE id

\* JSON.stringify(value, null, 2): properties whose value is undefined are
\* left out, null is written as null.
stringifyDroppingNull(o) ==
    [json |-> [f \in {g \in DOMAIN o : ~(g = "x" /\ o[g] \in {Undefined, Null})} |-> o[f]]]

stringify(o) ==
    [json |-> [f \in {g \in DOMAIN o : ~(g = "x" /\ o[g] = Undefined)} |-> o[f]]]

\* The document `null`: JSON.parse gives null, and reading a property of it
\* throws a TypeError.
JsonNull == [null |-> TRUE]

\* saveNode / saveLink: normalise the ids, serialise, call atomicWrite.
saveNodeJson(node) ==
    Spawn("save", getNodeFilePath(node.id),
          stringify([node EXCEPT !.id = idToString(node.id)]), "writeTmp")

saveLinkJson(link) ==
    Spawn("save", getLinkFilePath(link.id),
          stringify([link EXCEPT !.id = idToString(link.id),
                                 !.source_id = idToString(link.source_id),
                                 !.target_id = idToString(link.target_id)]),
          "writeTmp")

\* A file of the nodes directory that is not an entity file (notes.txt).
NotesPath == <<"nodetxt", "notes">>

\* A directory entry: the path it belongs to and the end of its name.
DirEntry(p, ext) == [path |-> p, ext |-> ext]

\* fs.readdir(NODES_DIR) / fs.readdir(LINKS_DIR): the names in the directory
\* (in a fixed order); ENOENT of the directory gives no names.
EntriesOf(p) ==
    <<DirEntry(p, "json"), DirEntry(p, "json.tmp"), DirEntry(p, "json.backup")>>

InDirectory(e) ==
    CASE e.ext = "json" -> e.path \in DOMAIN files
      [] e.ext = "txt" -> e.path \in DOMAIN files
      [] e.ext = "json.tmp" -> e.path \in DOMAIN tmps
      [] e.ext = "json.backup" -> e.path \in DOMAIN baks

readdir(kind) ==
    SelectSeq(IF kind = "node"
              THEN EntriesOf(<<"node", "a">>) \o EntriesOf(<<"node", "b">>)
                      \o <<DirEntry(NotesPath, "txt")>>
              ELSE EntriesOf(<<"link", "x">>) \o EntriesOf(<<"link", "y">>),
              InDirectory)

\* fs.readFile(filepath, 'utf8')
readFile(e) ==
    CASE e.ext = "json" -> files[e.path]
      [] e.ext = "txt" -> files[e.path]
      [] e.ext = "json.tmp" -> tmps[e.path]
      [] e.ext = "json.backup" -> baks[e.path]

\* !node.id, !node.label, ...: the property is missing or falsy ("").
Falsy(o, f) == f \notin DOMAIN o \/ (f = "label" /\ o[f] = NoLabel)

RequiredFields(kind) ==
    IF kind = "node" THEN {"id", "label"} ELSE {"id", "source_id", "target_id"}

\* The inner try without the check of the required fields.
loadOneUnchecked(kind, e) ==
    LET content == readFile(e) IN
    IF "json" \notin DOMAIN content
    THEN [ok |-> FALSE, file |-> e, message |-> "SyntaxError"]
    ELSE [ok |-> TRUE, file |-> e, value |-> content.json]

\* The body of the inner try of loadAllFiles for one file: what is pushed,
\* to nodes/links (ok) or to errors.
loadOne(kind, e) ==
    LET content == readFile(e) IN
    IF "json" \notin DOMAIN content
    THEN [ok |-> FALSE, file |-> e, message |-> "SyntaxError"]
    ELSE IF content.json = JsonNull
    THEN [ok |-> FALSE, file |-> e, message |-> "TypeError"]
    ELSE IF \E f \in RequiredFields(kind) : Falsy(content.json, f)
    THEN [ok |-> FALSE, file |-> e, message |-> "Missing required fields"]
    ELSE [ok |-> TRUE, file |-> e, value |-> content.json]

\* filename.endsWith('.json'), and not .tmp / .backup
endsWithJson(e) == e.ext = "json"

\* The for loop over one directory.
loadDirectory(kind) ==
    LET names == SelectSeq(readdir(kind), endsWithJson)
    IN  [i \in 1..Len(names) |-> loadOne(kind, names[i])]

IsLoaded(r) == r.ok
IsSkipped(r) == ~r.ok

AsError(r) == [file |-> r.file, message |-> r.message, action |-> "skipped"]

\* loadAllFiles(): return { nodes, links, errors }
loadAllFilesJson ==
    LET n == loadDirectory("node")
        l == loadDirectory("link")
        okN == SelectSeq(n, IsLoaded)
        okL == SelectSeq(l, IsLoaded)
        bad == SelectSeq(n, IsSkipped) \o SelectSeq(l, IsSkipped)
    IN  [nodes |-> [i \in 1..Len(okN) |-> okN[i].value],
         links |-> [i \in 1..Len(okL) |-> okL[i].value],
         errors |-> [i \in 1..Len(bad) |-> AsError(bad[i])]]

NoEntity == <<>>

\* The browser before its first message: state.graph is initialState.graph,
\* the data on the server has version 0.
NoBody == 0 - 1
Failed == 0 - 2
NoFront == [server |-> 0, issued |-> [nodes |-> 0, links |-> 0], fetches |-> {},
            graph |-> [nodes |-> 0, links |-> 0],
            last |-> [nodes |-> NoBody, links |-> NoBody], error |-> FALSE]

\* No database process: dbProcess is null, no promise is pending.
NoDatabase == [process |-> "none", dbProcess |-> "null", killed |-> FALSE,
               promise |-> "none", timer |-> "none",
               stop |-> "none", killTimer |-> "none",
               start |-> "none", shutdown |-> "none"]
NotMapped == <<>>
NotLoaded == [n |-> 0, result |-> <<>>]

-----------------------------------------------------------------------------
(* The watcher handlers with the documents they read (file-service.js) and  *)
(* upsertFromFile / deleteFromFile (db-service.js).  A watcher event is      *)
(* [kind, path]; a handler in flight is [kind, path, pc, data, id].          *)

NoneEmitted == [n |-> 0, last |-> <<>>]

\* eventEmitter.emit('data-change', type, operation, id)
emit(type, operation, id) ==
    emitted' = [n |-> emitted.n + 1,
                last |-> [type |-> type, operation |-> operation, id |-> id]]

\* A process other than the server writes or removes a file of the watched
\* directories; chokidar will report it.
OutsideWrite(p, text) ==
    /\ files' = Put(files, p, text)
    /\ events' = events \cup {[kind |-> IF p \in DOMAIN files THEN "change" ELSE "add",
                               path |-> p]}

OutsideRemove(p) ==
    /\ p \in DOMAIN files
    /\ files' = Drop(files, p)
    /\ events' = events \cup {[kind |-> "unlink", path |-> p]}

\* extractIdFromFilename(filename, table): `${table}:${match[1]}`
extractIdIgnoringTable(p, table) == <<"nodes", p[2]>>

extractIdFromFilename(p, table) == <<table, p[2]>>

Handler(kind, p, pc, data, id) ==
    [kind |-> kind, path |-> p, pc |-> pc, data |-> data, id |-> id]

\* handleFileAdded / handleFileChanged / handleFileDeleted up to their first
\* await: the name ends in .json, the event is not an own write; the unlink
\* handler computes the id from the name.
handleFileStart(e) ==
    /\ e \in events
    /\ ~isOurWrite(e.path)
    /\ events' = events \ {e}
    /\ inflight' = inflight \cup
          {IF e.kind = "unlink"
           THEN Handler(e.kind, e.path, "delete", <<>>,
                        extractIdFromFilename(e.path, IF e.path[1] = "node" THEN "nodes" ELSE "links"))
           ELSE Handler(e.kind, e.path, "read", <<>>, <<>>)}
    /\ UNCHANGED <<files, cache, emitted>>

\* content = await fs.readFile(filepath); data = JSON.parse(content).  A
\* missing file and a text that is not JSON throw: the catch logs, the
\* handler is over.
handleFileRead(h) ==
    /\ h \in inflight /\ h.pc = "read"
    /\ IF h.path \in DOMAIN files /\ "json" \in DOMAIN files[h.path]
       THEN inflight' = (inflight \ {h}) \cup {[h EXCEPT !.pc = "upsert",
                                                          !.data = files[h.path].json]}
       ELSE inflight' = inflight \ {h}
    /\ UNCHANGED <<files, cache, events, emitted>>

\* data.x || null
OrNull(data, f) == IF f \in DOMAIN data /\ data[f] # 0 THEN data[f] ELSE Null

\* The fields of `data` among fs (a field that is undefined is not set).
Pick(data, fs) == [f \in fs \cap DOMAIN data |-> data[f]]

\* upsertFromFile(data): the record UPSERT ... SET leaves in the cache.
upsertedRecord(data) ==
    IF data.id[1] = "nodes"
    THEN [id |-> data.id, x |-> OrNull(data, "x")] @@ Pick(data, {"label"})
    ELSE [id |-> data.id] @@ Pick(data, {"source_id", "target_id"})

\* await dbService.upsertFromFile(data): data.id.split(':') throws when data
\* is null or has no id (the catch of the handler logs it); otherwise the
\* record is upserted.
upsertFromFile(h) ==
    /\ h \in inflight /\ h.pc = "upsert"
    /\ IF h.data = JsonNull \/ "id" \notin DOMAIN h.data
       THEN /\ inflight' = inflight \ {h}
            /\ UNCHANGED cache
       ELSE /\ cache' = Put(cache, h.data.id, upsertedRecord(h.data))
            /\ inflight' = (inflight \ {h}) \cup {[h EXCEPT !.pc = "emit"]}
    /\ UNCHANGED <<files, events, emitted>>

\* eventEmitter.emit('data-change', type, 'added' | 'updated', data.id)
handleFileEmit(h) ==
    /\ h \in inflight /\ h.pc = "emit"
    /\ emit(h.path[1], IF h.kind = "add" THEN "added" ELSE "updated", h.data.id)
    /\ inflight' = inflight \ {h}
    /\ UNCHANGED <<files, cache, events>>

\* await dbService.deleteFromFile(id): DELETE ${id}
deleteFromFile(h) ==
    /\ h \in inflight /\ h.pc = "delete"
    /\ cache' = Drop(cache, h.id)
    /\ inflight' = (inflight \ {h}) \cup {[h EXCEPT !.pc = "emitDeleted"]}
    /\ UNCHANGED <<files, events, emitted>>

\* eventEmitter.emit('data-change', type, 'deleted', id)
handleFileEmitDeleted(h) ==
    /\ h \in inflight /\ h.pc = "emitDeleted"
    /\ emit(h.path[1], "deleted", h.id)
    /\ inflight' = inflight \ {h}
    /\ UNCHANGED <<files, cache, events>>

-----------------------------------------------------------------------------
(* Variable groups a specification does not drive stay at these values.     *)

FilesOff ==
    /\ files = <<>> /\ tmps = <<>> /\ baks = <<>>
    /\ tasks = EmptyBag

TrackOff ==
    /\ now = StartTime
    /\ recentWrites = <<>>
    /\ timers = {} /\ writes = {} /\ events = {}
    /\ handled = NoEvent

GraphOff ==
    /\ cache = <<>>
    /\ used = {}
    /\ dcall = NoCall

SwitchOff ==
    /\ proc = "up"
    /\ config = NoConfig
    /\ disk = [d \in Dirs |-> {}]
    /\ fsDir = FILES_DIR
    /\ watch = NoWatch
    /\ inflight = {}
    /\ hr = NoSwitch
    /\ scall = NoOp

CallOff ==
    /\ ret = NoReturn
    /\ saved = NoEntity /\ loaded = NotLoaded
    /\ emitted = NoneEmitted
    /\ live = EmptyBag
    /\ mapped = NotMapped
    /\ parked = NoSwitch
    /\ front = NoFront
    /\ dbp = NoDatabase

-----------------------------------------------------------------------------
(* SpecAtomic: saves of entities whose file already exists, with I/O        *)
(* failures at every fs call.                                               *)

InitAtomic ==
    /\ files = [p \in NodePaths |-> NodeContent(<<"nodes", p[2]>>, 1)]
    /\ tmps = <<>>
    /\ baks = <<>>
    /\ tasks = EmptyBag
    /\ TrackOff
    /\ GraphOff
    /\ SwitchOff
    /\ CallOff

NotFiles == <<trackVars, graphVars, switchVars, callVars, loadVars, noteVars, moreVars>>

ASaveNode ==
    /\ BagCardinality(tasks) < MaxSaves
    /\ \E id \in NodeIds, l \in Labels : saveNode(NodeContent(id, l))
    /\ UNCHANGED <<files, tmps, baks>>
    /\ UNCHANGED NotFiles

AWriteTmpOk == (\E t \in Pending : WriteTmpOk(t)) /\ UNCHANGED NotFiles
AWriteTmpFail == (\E t \in Pending : WriteTmpFail(t)) /\ UNCHANGED NotFiles
ARenameToBackupOk == (\E t \in Pending : RenameToBackupOk(t)) /\ UNCHANGED NotFiles
ARenameToBackupNoFile == (\E t \in Pending : RenameToBackupNoFile(t)) /\ UNCHANGED NotFiles
ARenameToBackupFail == (\E t \in Pending : RenameToBackupFail(t)) /\ UNCHANGED NotFiles
ARenameTmpOk == (\E t \in Pending : RenameTmpOk(t)) /\ UNCHANGED NotFiles
ARenameTmpNoFile == (\E t \in Pending : RenameTmpNoFile(t)) /\ UNCHANGED NotFiles
ARenameTmpFail == (\E t \in Pending : RenameTmpFail(t)) /\ UNCHANGED NotFiles
AUnlinkBackup == (\E t \in Pending : UnlinkBackup(t)) /\ UNCHANGED NotFiles
AUnlinkBackupFail == (\E t \in Pending : UnlinkBackupFail(t)) /\ UNCHANGED NotFiles
ARollbackRename == (\E t \in Pending : RollbackRename(t)) /\ UNCHANGED NotFiles
ARollbackRenameFail == (\E t \in Pending : RollbackRenameFail(t)) /\ UNCHANGED NotFiles
ASettle == (\E t \in Pending : Settle(t)) /\ UNCHANGED NotFiles

NextAtomic ==
    \/ ASaveNode
    \/ AWriteTmpOk
    \/ AWriteTmpFail
    \/ ARenameToBackupOk
    \/ ARenameToBackupNoFile
    \/ ARenameToBackupFail
    \/ ARenameTmpOk
    \/ ARenameTmpNoFile
    \/ ARenameTmpFail
    \/ AUnlinkBackup
    \/ AUnlinkBackupFail
    \/ ARollbackRename
    \/ ARollbackRenameFail
    \/ ASettle

SpecAtomic == InitAtomic /\ [][NextAtomic]_vars

-----------------------------------------------------------------------------
(* SpecSaves: saves that overlap on a disk whose fs calls fail only for the *)
(* reason the state gives (ENOENT); the finished calls are kept.            *)

NextSaves ==
    \/ ASaveNode
    \/ AWriteTmpOk
    \/ ARenameToBackupOk
    \/ ARenameToBackupNoFile
    \/ ARenameTmpOk
    \/ ARenameTmpNoFile
    \/ AUnlinkBackup
    \/ ARollbackRename

SpecSaves == InitAtomic /\ [][NextSaves]_vars

-----------------------------------------------------------------------------
(* SpecTracker: own writes and deletes, the cleanup timers, external edits   *)
(* and the watcher handlers, on a clock.                                    *)

MaxPending == 2     \* own writes in progress or awaiting their cleanup timer
MaxEvents == 2      \* watcher events not yet delivered

InitTracker == FilesOff /\ TrackOff /\ GraphOff /\ SwitchOff /\ CallOff

NotTrack == <<fileVars, graphVars, switchVars, callVars, loadVars, noteVars, moreVars>>

CanWrite == Cardinality(writes) + Cardinality(timers) < MaxPending

TSaveStart == (\E p \in TrackPaths : CanWrite /\ SaveStart(p)) /\ UNCHANGED NotTrack
TSaveDone ==
    /\ \E w \in writes : Cardinality(events) < MaxEvents /\ SaveDone(w)
    /\ UNCHANGED NotTrack
TSaveFailed == (\E w \in writes : SaveFailed(w)) /\ UNCHANGED NotTrack
TDeleteStart == (\E p \in TrackPaths : CanWrite /\ DeleteStart(p)) /\ UNCHANGED NotTrack
TDeleteDone ==
    /\ \E w \in writes : Cardinality(events) < MaxEvents /\ DeleteDone(w)
    /\ UNCHANGED NotTrack
TDeleteFailed == (\E w \in writes : DeleteFailed(w)) /\ UNCHANGED NotTrack
TTimerFires == (\E tm \in timers : TimerFires(tm)) /\ UNCHANGED NotTrack
TExternalEdit ==
    /\ \E p \in TrackPaths, k \in {"change", "unlink"} :
          events = {} /\ ExternalEdit(p, k)
    /\ UNCHANGED NotTrack
THandleFileEvent == (\E e \in events : handleFileEvent(e)) /\ UNCHANGED NotTrack
TAdvance == Advance /\ UNCHANGED NotTrack

NextTracker ==
    \/ TSaveStart
    \/ TSaveDone
    \/ TSaveFailed
    \/ TDeleteStart
    \/ TDeleteDone
    \/ TDeleteFailed
    \/ TTimerFires
    \/ TExternalEdit
    \/ THandleFileEvent
    \/ TAdvance

SpecTracker == InitTracker /\ [][NextTracker]_vars

-----------------------------------------------------------------------------
(* SpecGraph: create and delete calls on nodes and links, with the file      *)
(* tasks they start; no fs call fails other than with ENOENT.  A client      *)
(* deletes entities it is shown, that is, entities of the cache.  An id is   *)
(* handed out once, so no save finds a file to back up.                     *)

InitGraph == FilesOff /\ TrackOff /\ GraphOff /\ SwitchOff /\ CallOff

NotGraph == <<trackVars, switchVars, callVars, loadVars, noteVars, moreVars>>

CanCall == BagCardinality(tasks) < MaxCalls

GCreateNode ==
    /\ CanCall
    /\ \E id \in NodeIds : createNode(id, 1)
    /\ UNCHANGED NotGraph
GCreateLink ==
    /\ CanCall
    /\ \E id \in LinkIds, s \in NodeIds, g \in NodeIds : createLink(id, s, g)
    /\ UNCHANGED NotGraph
GDeleteLink ==
    /\ CanCall
    /\ \E id \in CachedLinks : deleteLink(id)
    /\ UNCHANGED NotGraph
GDeleteNodeCall == (\E id \in CachedNodes : DeleteNodeCall(id)) /\ UNCHANGED NotGraph
GDeleteNodeSelect == DeleteNodeSelect /\ UNCHANGED NotGraph
GDeleteNodeLinks == DeleteNodeLinks /\ UNCHANGED NotGraph
GDeleteNodeRecord == DeleteNodeRecord /\ UNCHANGED NotGraph
GDeleteNodeFiles == DeleteNodeFiles /\ UNCHANGED NotGraph

NotFilesG == <<trackVars, graphVars, switchVars, callVars, loadVars, noteVars, moreVars>>

GWriteTmpOk == (\E t \in Pending : WriteTmpOk(t)) /\ UNCHANGED NotFilesG
GRenameToBackupNoFile == (\E t \in Pending : RenameToBackupNoFile(t)) /\ UNCHANGED NotFilesG
GRenameTmpOk == (\E t \in Pending : RenameTmpOk(t)) /\ UNCHANGED NotFilesG
GUnlinkBackup == (\E t \in Pending : UnlinkBackup(t)) /\ UNCHANGED NotFilesG
GUnlinkFile == (\E t \in Pending : UnlinkFile(t)) /\ UNCHANGED NotFilesG
GSettle == (\E t \in Pending : Settle(t)) /\ UNCHANGED NotFilesG

NextGraph ==
    \/ GCreateNode
    \/ GCreateLink
    \/ GDeleteLink
    \/ GDeleteNodeCall
    \/ GDeleteNodeSelect
    \/ GDeleteNodeLinks
    \/ GDeleteNodeRecord
    \/ GDeleteNodeFiles
    \/ GWriteTmpOk
    \/ GRenameToBackupNoFile
    \/ GRenameTmpOk
    \/ GUnlinkBackup
    \/ GUnlinkFile
    \/ GSettle

SpecGraph == InitGraph /\ [][NextGraph]_vars

-----------------------------------------------------------------------------
(* SpecSwitch: the process is started and stopped, sources are added,       *)
(* removed and switched, an outside process writes and removes the file of  *)
(* one node of the project directory.                                       *)
(* recentWrites stays empty (no own write happens here), so the             *)
(* recentWrites.clear() of reloadWatchers changes nothing.                  *)

InitSwitch ==
    /\ FilesOff /\ TrackOff /\ CallOff
    /\ cache = <<>> /\ used = {} /\ dcall = NoCall
    /\ proc = "down"
    /\ \E dp \in DefaultPaths :
          config = [current |-> "default",
                    sources |-> [id \in {"default", "ext", "broken"} |->
                                   IF id = "default" THEN dp
                                   ELSE IF id = "ext" THEN ExternalFiles
                                   ELSE NotADirectory]]
    /\ disk = [d \in Dirs |-> HomeIds(d)]
    /\ fsDir = FILES_DIR
    /\ watch = NoWatch
    /\ inflight = {}
    /\ hr = NoSwitch
    /\ scall = NoOp

NotSwitch == <<fileVars, trackVars, used, dcall, callVars, loadVars, noteVars, moreVars>>

SStart == start /\ UNCHANGED NotSwitch
SShutdown == Shutdown /\ UNCHANGED NotSwitch
SWatcherClosed == WatcherClosed /\ UNCHANGED NotSwitch
SExternalWrite == ExternalWrite(ProjectFiles, NodeA) /\ UNCHANGED NotSwitch
SExternalRemove == ExternalRemove(ProjectFiles, NodeA) /\ UNCHANGED NotSwitch
SHandlerQuery == (\E h \in inflight : HandlerQuery(h)) /\ UNCHANGED NotSwitch
\* Only the first addSource of the id is followed here; SpecConfig has the
\* collisions.
SAddGetConfig ==
    /\ AuxIds[1] \notin DOMAIN config.sources
    /\ \E p \in {ExternalFiles, NotADirectory} : AddGetConfig(AuxIds[1], p)
    /\ UNCHANGED NotSwitch
SAddSave == AddSave /\ UNCHANGED NotSwitch
SRemoveGetConfig == (\E id \in {"default", "aux"} : RemoveGetConfig(id)) /\ UNCHANGED NotSwitch
SRemoveSave == RemoveSave /\ UNCHANGED NotSwitch
SHRGetConfig == (\E id \in SourceIds : HRGetConfig(id)) /\ UNCHANGED NotSwitch
SSwitchSource == switchSource /\ UNCHANGED NotSwitch
SHRStopWatchers == HRStopWatchers /\ UNCHANGED NotSwitch
SHRClearLinks == HRClearLinks /\ UNCHANGED NotSwitch
SHRClearNodes == HRClearNodes /\ UNCHANGED NotSwitch
SHRLoadAllFiles == HRLoadAllFiles /\ UNCHANGED NotSwitch
SHRPopulate == HRPopulate /\ UNCHANGED NotSwitch
SHRReloadWatchers == HRReloadWatchers /\ UNCHANGED NotSwitch
SHRAnswered == HRAnswered /\ UNCHANGED NotSwitch
SHRStepThrows == HRStepThrows /\ UNCHANGED NotSwitch
SHRRecover == HRRecover /\ UNCHANGED NotSwitch
SHRRecoverWatch == HRRecoverWatch /\ UNCHANGED NotSwitch
SHRRecoverLoad == HRRecoverLoad /\ UNCHANGED NotSwitch
SHRRecoverPopulate == HRRecoverPopulate /\ UNCHANGED NotSwitch
SHRRecoveryThrows == HRRecoveryThrows /\ UNCHANGED NotSwitch

NextSwitch ==
    \/ SStart
    \/ SShutdown
    \/ SWatcherClosed
    \/ SExternalWrite
    \/ SExternalRemove
    \/ SHandlerQuery
    \/ SAddGetConfig
    \/ SAddSave
    \/ SRemoveGetConfig
    \/ SRemoveSave
    \/ SHRGetConfig
    \/ SSwitchSource
    \/ SHRStopWatchers
    \/ SHRClearLinks
    \/ SHRClearNodes
    \/ SHRLoadAllFiles
    \/ SHRPopulate
    \/ SHRReloadWatchers
    \/ SHRAnswered
    \/ SHRStepThrows
    \/ SHRRecover
    \/ SHRRecoverWatch
    \/ SHRRecoverLoad
    \/ SHRRecoverPopulate
    \/ SHRRecoveryThrows

SpecSwitch == InitSwitch /\ [][NextSwitch]_vars

-----------------------------------------------------------------------------
(* SpecConfig: addSource, removeSource and switches on the source config,   *)
(* with what each addSource / removeSource call answers (ret).              *)

RequestIds == {"aux", "ext", "constructor"}
RemoveIds == {"default", "ext", "aux", "constructor"}

NotConfig == <<fileVars, trackVars, used, dcall, loadVars, noteVars, moreVars>>

CAddGetConfig ==
    /\ ret.n < MaxConfigCalls
    /\ \E id \in RequestIds, p \in {ExternalFiles, NotADirectory} : AddGetConfig(id, p)
    /\ UNCHANGED NotSwitch
CAddSave ==
    /\ AddSave
    /\ Return("addSource", addSource(scall.cfg, scall.id, scall.path))
    /\ UNCHANGED NotConfig
CRemoveGetConfig ==
    /\ ret.n < MaxConfigCalls
    /\ \E id \in RemoveIds : RemoveGetConfig(id)
    /\ UNCHANGED NotSwitch
CRemoveSave ==
    /\ RemoveSave
    /\ Return("removeSource", removeSource(scall.cfg, scall.id))
    /\ UNCHANGED NotConfig

NextConfig ==
    \/ SStart
    \/ SWatcherClosed
    \/ CAddGetConfig
    \/ CAddSave
    \/ CRemoveGetConfig
    \/ CRemoveSave
    \/ SHRGetConfig
    \/ SSwitchSource
    \/ SHRStopWatchers
    \/ SHRClearLinks
    \/ SHRClearNodes
    \/ SHRLoadAllFiles
    \/ SHRPopulate
    \/ SHRReloadWatchers
    \/ SHRAnswered
    \/ SHRRecover
    \/ SHRRecoverWatch
    \/ SHRRecoverLoad
    \/ SHRRecoverPopulate

SpecConfig == InitSwitch /\ [][NextConfig]_vars

-----------------------------------------------------------------------------
(* SpecClear: switches between the sources while an outside process writes  *)
(* and removes the file of one link of the external directory, so that a    *)
(* watcher handler for a link may be in flight during clearAllData.         *)

QExternalWrite == ExternalWrite(ExternalFiles, LinkX) /\ UNCHANGED NotSwitch
QExternalRemove == ExternalRemove(ExternalFiles, LinkX) /\ UNCHANGED NotSwitch

NextClear ==
    \/ SStart
    \/ SWatcherClosed
    \/ QExternalWrite
    \/ QExternalRemove
    \/ SHandlerQuery
    \/ SHRGetConfig
    \/ SSwitchSource
    \/ SHRStopWatchers
    \/ SHRClearLinks
    \/ SHRClearNodes
    \/ SHRLoadAllFiles
    \/ SHRPopulate
    \/ SHRReloadWatchers
    \/ SHRAnswered
    \/ SHRRecover
    \/ SHRRecoverWatch
    \/ SHRRecoverLoad
    \/ SHRRecoverPopulate

SpecClear == InitSwitch /\ [][NextClear]_vars

-----------------------------------------------------------------------------
(* SpecOverlap: two PUT /api/data-sources/current requests are in progress  *)
(* at once.  Each runs performHotReload; at every await of one the event    *)
(* loop may run the continuation of the other.  hr is the call whose        *)
(* continuation runs next, parked is the other one.                         *)

\* The call in hr is waiting at an await and the other call's continuation
\* is the next to run.
OtherRequestRuns ==
    /\ proc = "up"
    /\ hr.pc \notin {"done", "failed"}
    /\ hr # parked
    /\ hr' = parked
    /\ parked' = hr
    /\ UNCHANGED <<proc, config, disk, fsDir, watch, inflight, scall, cache>>

OOtherRequestRuns ==
    /\ OtherRequestRuns
    /\ UNCHANGED <<fileVars, trackVars, used, dcall, callVars, loadVars, noteVars, live, mapped, front, dbp>>

NextOverlap ==
    \/ SStart
    \/ SWatcherClosed
    \/ SHRGetConfig
    \/ SSwitchSource
    \/ SHRStopWatchers
    \/ SHRClearLinks
    \/ SHRClearNodes
    \/ SHRLoadAllFiles
    \/ SHRPopulate
    \/ SHRReloadWatchers
    \/ SHRAnswered
    \/ SHRStepThrows
    \/ SHRRecover
    \/ SHRRecoverWatch
    \/ SHRRecoverLoad
    \/ SHRRecoverPopulate
    \/ SHRRecoveryThrows
    \/ OOtherRequestRuns

SpecOverlap == InitSwitch /\ [][NextOverlap]_vars

-----------------------------------------------------------------------------
(* SpecMutate: createNode / updateNode / createLink and direct calls of      *)
(* deleteNodeFile, with every fs call of the background tasks free to fail.  *)

InitMutate == FilesOff /\ TrackOff /\ GraphOff /\ SwitchOff /\ CallOff

NotMutate == <<trackVars, switchVars, loadVars, noteVars, moreVars>>
NotFilesM == <<trackVars, graphVars, switchVars, callVars, loadVars, noteVars, moreVars>>

CanMutate == BagCardinality(tasks) < MaxSaves /\ ret.n < MaxMutations

\* Inputs of the calls: one node id and one link id are handed out, so that
\* the background tasks of several calls meet on the same file.
MutNodeIds == {<<"nodes", "a">>}
MutLinkIds == {<<"links", "x">>}
LabelInputs == Labels \cup {NoLabel}
EndpointInputs == {<<"nodes", "a">>, NoEndpoint}

MCreateNode ==
    /\ CanMutate
    /\ \E id \in MutNodeIds, l \in LabelInputs :
          createNode(id, l) /\ Return("createNode", Node(id, l))
    /\ UNCHANGED NotMutate

MUpdateNode ==
    /\ CanMutate
    /\ \E id \in MutNodeIds, l \in Labels :
          updateNode(id, l) /\ Return("updateNode", [cache[id] EXCEPT !.label = l])
    /\ UNCHANGED NotMutate

MCreateLink ==
    /\ CanMutate
    /\ \E id \in MutLinkIds, s \in EndpointInputs, g \in EndpointInputs :
          createLink(id, s, g) /\ Return("createLink", Link(id, s, g))
    /\ UNCHANGED NotMutate

MDeleteNodeFile ==
    /\ CanMutate
    /\ \E id \in MutNodeIds : deleteNodeFile(id)
    /\ Return("deleteNodeFile", <<>>)
    /\ UNCHANGED <<files, tmps, baks>>
    /\ UNCHANGED <<trackVars, graphVars, switchVars, loadVars, noteVars, moreVars>>

MWriteTmpOk == (\E t \in Pending : WriteTmpOk(t)) /\ UNCHANGED NotFilesM
MWriteTmpFail == (\E t \in Pending : WriteTmpFail(t)) /\ UNCHANGED NotFilesM
MRenameToBackupOk == (\E t \in Pending : RenameToBackupOk(t)) /\ UNCHANGED NotFilesM
MRenameToBackupNoFile == (\E t \in Pending : RenameToBackupNoFile(t)) /\ UNCHANGED NotFilesM
MRenameToBackupFail == (\E t \in Pending : RenameToBackupFail(t)) /\ UNCHANGED NotFilesM
MRenameTmpOk == (\E t \in Pending : RenameTmpOk(t)) /\ UNCHANGED NotFilesM
MRenameTmpNoFile == (\E t \in Pending : RenameTmpNoFile(t)) /\ UNCHANGED NotFilesM
MRenameTmpFail == (\E t \in Pending : RenameTmpFail(t)) /\ UNCHANGED NotFilesM
MUnlinkBackup == (\E t \in Pending : UnlinkBackup(t)) /\ UNCHANGED NotFilesM
MUnlinkBackupFail == (\E t \in Pending : UnlinkBackupFail(t)) /\ UNCHANGED NotFilesM
MRollbackRename == (\E t \in Pending : RollbackRename(t)) /\ UNCHANGED NotFilesM
MRollbackRenameFail == (\E t \in Pending : RollbackRenameFail(t)) /\ UNCHANGED NotFilesM
MUnlinkFile == (\E t \in Pending : UnlinkFile(t)) /\ UNCHANGED NotFilesM
MUnlinkFileFail == (\E t \in Pending : UnlinkFileFail(t)) /\ UNCHANGED NotFilesM
MSettle == (\E t \in Pending : Settle(t)) /\ UNCHANGED NotFilesM

NextMutate ==
    \/ MCreateNode
    \/ MUpdateNode
    \/ MCreateLink
    \/ MDeleteNodeFile
    \/ MWriteTmpOk
    \/ MWriteTmpFail
    \/ MRenameToBackupOk
    \/ MRenameToBackupNoFile
    \/ MRenameToBackupFail
    \/ MRenameTmpOk
    \/ MRenameTmpNoFile
    \/ MRenameTmpFail
    \/ MUnlinkBackup
    \/ MUnlinkBackupFail
    \/ MRollbackRename
    \/ MRollbackRenameFail
    \/ MUnlinkFile
    \/ MUnlinkFileFail
    \/ MSettle

SpecMutate == InitMutate /\ [][NextMutate]_vars

-----------------------------------------------------------------------------
(* SpecLoad: loadAllFiles on directories that hold valid files, files with  *)
(* missing fields, unparsable files and leftovers of interrupted saves,      *)
(* while saveNode / saveLink write documents into them.                      *)

\* Objects a file of node `id` may hold.
NodeObjects(id) ==
    {[id |-> id, label |-> 1, x |-> Null],
     [id |-> id, label |-> NoLabel, x |-> 0],
     [id |-> id, x |-> 0],
     [label |-> 1, x |-> Null]}

LinkObjects(id) ==
    {[id |-> id, source_id |-> NodeA, target_id |-> NodeB],
     [id |-> id, target_id |-> NodeB]}

NodeTexts(id) == {stringify(o) : o \in NodeObjects(id)} \cup {Partial, [json |-> JsonNull]}
LinkTexts(id) == {stringify(o) : o \in LinkObjects(id)} \cup {Partial}

\* The file at path p holds one of the texts, or is not there.
FileChoices(p, texts) == {<<>>} \cup {Put(<<>>, p, t) : t \in texts}

InitLoad ==
    /\ \E fa \in FileChoices(<<"node", "a">>, NodeTexts(<<"nodes", "a">>)),
          fb \in FileChoices(<<"node", "b">>, {stringify(Node(NodeB, 1)), Partial}),
          fx \in FileChoices(<<"link", "x">>, LinkTexts(<<"links", "x">>)),
          fn \in FileChoices(NotesPath, {Partial}) :
          files = fa @@ fb @@ fx @@ fn
    /\ \E crashed \in BOOLEAN :
          /\ tmps = IF crashed THEN Put(<<>>, <<"node", "b">>, Partial) ELSE <<>>
          /\ baks = IF crashed THEN Put(<<>>, <<"link", "x">>, stringify(Link(LinkX, NodeA, NodeB)))
                     ELSE <<>>
    /\ tasks = EmptyBag
    /\ TrackOff /\ GraphOff /\ SwitchOff /\ CallOff

NotLoad == <<trackVars, graphVars, switchVars, callVars, noteVars, moreVars>>

\* Entities handed to saveNode / saveLink: the id as a string or as the
\* cache's RecordId object, x a number, null or undefined.
NodeInputs ==
    {[id |-> NodeA, label |-> 1, x |-> Null],
     [id |-> NodeA, label |-> 1, x |-> 0],
     [id |-> NodeA, label |-> 1, x |-> Undefined],
     [id |-> NodeA, label |-> NoLabel, x |-> 0],
     [id |-> RecordId("nodes", "a"), label |-> 1, x |-> 0]}

LinkInputs ==
    {[id |-> LinkX, source_id |-> NodeA, target_id |-> NodeB],
     [id |-> RecordId("links", "x"), source_id |-> NodeA, target_id |-> NodeB],
     [id |-> LinkX, source_id |-> RecordId("nodes", "a"), target_id |-> NodeB]}

LSaveNode ==
    /\ FilesQuiet
    /\ \E node \in NodeInputs : saveNodeJson(node) /\ saved' = node
    /\ UNCHANGED <<files, tmps, baks, loaded>>
    /\ UNCHANGED NotLoad

LSaveLink ==
    /\ FilesQuiet
    /\ \E link \in LinkInputs : saveLinkJson(link) /\ saved' = link
    /\ UNCHANGED <<files, tmps, baks, loaded>>
    /\ UNCHANGED NotLoad

LLoadAllFiles ==
    /\ loaded.n < MaxLoads
    /\ loaded' = [n |-> loaded.n + 1, result |-> loadAllFilesJson]
    /\ UNCHANGED <<fileVars, saved>>
    /\ UNCHANGED NotLoad

NotFilesL == <<trackVars, graphVars, switchVars, callVars, loadVars, noteVars, moreVars>>

LWriteTmpOk == (\E t \in Pending : WriteTmpOk(t)) /\ UNCHANGED NotFilesL
LRenameToBackupOk == (\E t \in Pending : RenameToBackupOk(t)) /\ UNCHANGED NotFilesL
LRenameToBackupNoFile == (\E t \in Pending : RenameToBackupNoFile(t)) /\ UNCHANGED NotFilesL
LRenameTmpOk == (\E t \in Pending : RenameTmpOk(t)) /\ UNCHANGED NotFilesL
LUnlinkBackup == (\E t \in Pending : UnlinkBackup(t)) /\ UNCHANGED NotFilesL
LSettle == (\E t \in Pending : Settle(t)) /\ UNCHANGED NotFilesL

NextLoad ==
    \/ LSaveNode
    \/ LSaveLink
    \/ LLoadAllFiles
    \/ LWriteTmpOk
    \/ LRenameToBackupOk
    \/ LRenameToBackupNoFile
    \/ LRenameTmpOk
    \/ LUnlinkBackup
    \/ LSettle

SpecLoad == InitLoad /\ [][NextLoad]_vars

-----------------------------------------------------------------------------
(* SpecWatch: other processes write and remove entity files; the watcher     *)
(* handlers bring the changes into the cache and emit the notifications.     *)

\* The state start() leaves: the directories are empty, or they hold node a
\* and a link from a to a, which populateFromFiles has put into the cache.
StartedNode == [id |-> NodeA, label |-> 1, x |-> 1]
StartedLink == [id |-> LinkX, source_id |-> NodeA, target_id |-> NodeA]

InitWatch ==
    /\ \E populated \in BOOLEAN :
          IF populated
          THEN /\ files = Put(Put(<<>>, getNodeFilePath(NodeA), stringify(StartedNode)),
                                getLinkFilePath(LinkX), stringify(StartedLink))
               /\ cache = Put(Put(<<>>, NodeA, upsertedRecord(StartedNode)),
                               LinkX, upsertedRecord(StartedLink))
          ELSE files = <<>> /\ cache = <<>>
    /\ tmps = <<>> /\ baks = <<>> /\ tasks = EmptyBag
    /\ used = {} /\ dcall = NoCall
    /\ TrackOff /\ SwitchOff /\ CallOff

NotWatch == <<tmps, baks, tasks, now, recentWrites, timers, writes, handled,
              used, dcall, proc, config, disk, fsDir, watch, hr, scall,
              callVars, loadVars, moreVars>>

\* What another process may put into nodes/node_a.json and links/link_x.json.
WatchedTexts(p) ==
    IF p[1] = "node"
    THEN {stringify(o) : o \in {[id |-> NodeA, label |-> 1, x |-> Null],
                                 [id |-> NodeA, label |-> 1, x |-> 0],
                                 [id |-> NodeA, label |-> 2, x |-> 1],
                                 [id |-> NodeB, label |-> 1, x |-> 1],
                                 [id |-> NodeA, x |-> Null],
                                 [label |-> 1, x |-> Null]}}
            \cup {Partial, [json |-> JsonNull]}
    ELSE {stringify(o) : o \in {[id |-> LinkX, source_id |-> NodeA, target_id |-> NodeA],
                                 [id |-> LinkX, target_id |-> NodeA]}}
            \cup {Partial}

WatchedPaths == {getNodeFilePath(NodeA), getLinkFilePath(LinkX)}

CanReport == emitted.n + Cardinality(events) + Cardinality(inflight) < MaxReports

WOutsideWrite ==
    /\ CanReport
    /\ \E p \in WatchedPaths : \E text \in WatchedTexts(p) : OutsideWrite(p, text)
    /\ UNCHANGED <<cache, inflight, emitted>>
    /\ UNCHANGED NotWatch

WOutsideRemove ==
    /\ CanReport
    /\ \E p \in WatchedPaths : OutsideRemove(p)
    /\ UNCHANGED <<cache, inflight, emitted>>
    /\ UNCHANGED NotWatch

WHandleFileStart ==
    /\ Cardinality(inflight) < MaxHandlers
    /\ \E e \in events : handleFileStart(e)
    /\ UNCHANGED NotWatch

WHandleFileRead == (\E h \in inflight : handleFileRead(h)) /\ UNCHANGED NotWatch
WUpsertFromFile == (\E h \in inflight : upsertFromFile(h)) /\ UNCHANGED NotWatch
WHandleFileEmit == (\E h \in inflight : handleFileEmit(h)) /\ UNCHANGED NotWatch
WDeleteFromFile == (\E h \in inflight : deleteFromFile(h)) /\ UNCHANGED NotWatch
WHandleFileEmitDeleted == (\E h \in inflight : handleFileEmitDeleted(h)) /\ UNCHANGED NotWatch

NextWatch ==
    \/ WOutsideWrite
    \/ WOutsideRemove
    \/ WHandleFileStart
    \/ WHandleFileRead
    \/ WUpsertFromFile
    \/ WHandleFileEmit
    \/ WDeleteFromFile
    \/ WHandleFileEmitDeleted

SpecWatch == InitWatch /\ [][NextWatch]_vars

-----------------------------------------------------------------------------
(* SpecWatchers: startWatchers, stopWatchers and updateDataSourcePaths       *)
(* called in any order, with the chokidar instances they create and close.   *)

\* startWatchers(): nodesWatcher = chokidar.watch(NODES_DIR, ...) and the same
\* for links; the new pair watches the directories of the moment, and the
\* variables now refer to it.
startWatchersCall ==
    /\ live' = live (+) SetToBag({fsDir})
    /\ watch' = startWatchers(watch, fsDir)
    /\ UNCHANGED <<fsDir, events>>

\* stopWatchers(): if (nodesWatcher) { nodesWatcher.close(); nodesWatcher = null }
\* closes the pair the variables refer to, and no other.
stopWatchersCall ==
    /\ live' = IF watch.on = "none" THEN live ELSE live (-) SetToBag({watch.on})
    /\ watch' = stopWatchers
    /\ UNCHANGED <<fsDir, events>>

\* updateDataSourcePaths(newSourcePath)
updateDataSourcePaths(d) ==
    /\ fsDir' = d
    /\ UNCHANGED <<live, watch, events>>

\* A file of directory d is changed by another process: every live watcher
\* pair on d calls its handler.
OutsideChange(d) ==
    /\ events' = events \cup {[dir |-> d, times |-> CopiesIn(d, live)]}
    /\ UNCHANGED <<live, watch, fsDir>>

\* The handlers of a change have run.
ChangeHandled(e) ==
    /\ e \in events
    /\ events' = events \ {e}
    /\ UNCHANGED <<live, watch, fsDir>>

InitWatchers == FilesOff /\ TrackOff /\ GraphOff /\ SwitchOff /\ CallOff

NotWatchers == <<fileVars, now, recentWrites, timers, writes, handled, graphVars,
                 proc, config, disk, inflight, hr, scall,
                 callVars, loadVars, noteVars, mapped, parked, front, dbp>>

KStartWatchers ==
    /\ BagCardinality(live) < MaxWatchers
    /\ startWatchersCall
    /\ UNCHANGED NotWatchers

KStopWatchers == stopWatchersCall /\ UNCHANGED NotWatchers

KWatcherClosed == WatcherClosed /\ UNCHANGED <<fileVars, trackVars, used, dcall, callVars, loadVars, noteVars, moreVars>>

KUpdateDataSourcePaths == (\E d \in Dirs : updateDataSourcePaths(d)) /\ UNCHANGED NotWatchers

KOutsideChange == (\E d \in Dirs : OutsideChange(d)) /\ UNCHANGED NotWatchers

KChangeHandled == (\E e \in events : ChangeHandled(e)) /\ UNCHANGED NotWatchers

NextWatchers ==
    \/ KStartWatchers
    \/ KStopWatchers
    \/ KWatcherClosed
    \/ KUpdateDataSourcePaths
    \/ KOutsideChange
    \/ KChangeHandled

SpecWatchers == InitWatchers /\ [][NextWatchers]_vars

-----------------------------------------------------------------------------
(* SpecNames: the file name of an id and the id of a file name, as text.    *)
(* Elsewhere in this module the suffix of an id is one atom; here an id is  *)
(* the string the code handles, a sequence of characters, with the table    *)
(* name, "node_", "link_" and ".json" written as one element each.          *)

Chars == {"a", "b", ":"}
Suffixes == UNION {[1..n -> Chars] : n \in 0..MaxSuffix}

\* `${table}:${suffix}`
idText(table, suffix) == <<table, ":">> \o suffix

\* idStr.split(':')[1]: what stands between the first ':' and the next one
\* (or the end of the string).
Colons(str) == {i \in 1..Len(str) : str[i] = ":"}
Least(S) == CHOOSE i \in S : \A j \in S : i <= j
getIdSuffixText(idStr) ==
    LET first == Least(Colons(idStr))
        later == {i \in Colons(idStr) : i > first}
        next == IF later = {} THEN Len(idStr) + 1 ELSE Least(later)
    IN  SubSeq(idStr, first + 1, next - 1)

\* getNodeFilename: `node_${suffix}.json`; getLinkFilename: `link_${suffix}.json`
getNodeFilename(idStr) == <<"node_">> \o getIdSuffixText(idStr) \o <<".json">>
getLinkFilename(idStr) == <<"link_">> \o getIdSuffixText(idStr) \o <<".json">>

\* extractIdFromFilename on text:
\* filename.match(/^(?:nodes?|links?|edges?)_(.+)\.json$/), null without a
\* match, else `${table}:${match[1]}`.
NullText == <<"null">>
Prefixes == {"node_", "nodes_", "link_", "links_", "edge_", "edges_"}
extractIdFromName(filename, table) ==
    IF /\ Len(filename) >= 3
       /\ filename[1] \in Prefixes
       /\ filename[Len(filename)] = ".json"
    THEN <<table, ":">> \o SubSeq(filename, 2, Len(filename) - 1)
    ELSE NullText

\* A node or link id is given; its file name is computed; the id of that
\* file name is computed.
getFilenameCall ==
    /\ mapped.stage = "id"
    /\ mapped' = [mapped EXCEPT !.stage = "file",
                                !.file = IF mapped.table = "nodes"
                                         THEN getNodeFilename(mapped.id)
                                         ELSE getLinkFilename(mapped.id)]

extractIdCall ==
    /\ mapped.stage = "file"
    /\ mapped' = [mapped EXCEPT !.stage = "back",
                                !.back = extractIdFromName(mapped.file, mapped.table)]

InitNames ==
    /\ FilesOff /\ TrackOff /\ GraphOff /\ SwitchOff
    /\ ret = NoReturn
    /\ saved = NoEntity /\ loaded = NotLoaded
    /\ emitted = NoneEmitted
    /\ live = EmptyBag
    /\ parked = NoSwitch
    /\ front = NoFront
    /\ dbp = NoDatabase
    /\ \E table \in {"nodes", "links"}, suffix \in Suffixes :
          mapped = [stage |-> "id", table |-> table, suffix |-> suffix,
                    id |-> idText(table, suffix), file |-> <<>>, back |-> <<>>]

NotNames == <<fileVars, trackVars, graphVars, switchVars, callVars, loadVars, noteVars, live, parked, front, dbp>>

NGetFilename == getFilenameCall /\ UNCHANGED NotNames
NExtractId == extractIdCall /\ UNCHANGED NotNames

NextNames ==
    \/ NGetFilename
    \/ NExtractId

SpecNames == InitNames /\ [][NextNames]_vars

-----------------------------------------------------------------------------
(* SpecFront: the browser (GraphContext.jsx, graphReducer.js).  The data on  *)
(* the server is a version number; a response body is the version the       *)
(* server had when it answered; state.graph.nodes / links is the version of  *)
(* the body last dispatched.                                                *)

MaxVersions == 3    \* SpecFront: changes of the data on the server
MaxFetches == 2     \* SpecFront: fetches under way at the same time

Messages == {[type |-> "node", action |-> "added"],
             [type |-> "node", action |-> "deleted"],
             [type |-> "link", action |-> "updated"],
             [type |-> "system", action |-> "reload"]}

\* ws.onmessage: which of loadNodes() / loadLinks() the message calls.
Reloads(message) ==
    IF message.type = "node"
    THEN IF message.action = "deleted" THEN {"nodes", "links"} ELSE {"nodes"}
    ELSE IF message.type = "link" THEN {"links"}
    ELSE IF message.type = "system" /\ message.action = "reload" THEN {"nodes", "links"}
    ELSE {}

\* The data changes on the server, the message is broadcast and
\* ws.onmessage(message) runs: each load issues its fetch.
onmessage(message) ==
    /\ front.server < MaxVersions
    /\ Cardinality(front.fetches) + Cardinality(Reloads(message)) <= MaxFetches
    /\ front' = [front EXCEPT
          !.server = @ + 1,
          !.issued = [k \in {"nodes", "links"} |-> IF k \in Reloads(message) THEN @[k] + 1 ELSE @[k]],
          !.fetches = @ \cup {[kind |-> k, n |-> front.issued[k] + 1, pc |-> "sent", body |-> NoBody] :
                                k \in Reloads(message)}]

\* GET /api/nodes, GET /api/links: the server answers with the data it has.
serverAnswers(f) ==
    /\ f \in front.fetches /\ f.pc = "sent"
    /\ front' = [front EXCEPT !.fetches = (@ \ {f}) \cup {[f EXCEPT !.pc = "answered", !.body = front.server]}]

\* loadNodes / loadLinks after their awaits: dispatch LOAD_NODES / LOAD_LINKS,
\* the reducer puts the payload into state.graph.
loadDispatch(f) ==
    /\ f \in front.fetches /\ f.pc = "answered"
    /\ front' = [front EXCEPT
          !.fetches = @ \ {f},
          !.graph[f.kind] = f.body,
          !.last[f.kind] = IF f.n = front.issued[f.kind] THEN f.body ELSE @]

\* fetch rejects or response.ok is false: the catch dispatches SET_ERROR.
loadFails(f) ==
    /\ f \in front.fetches /\ f.pc = "sent"
    /\ front' = [front EXCEPT
          !.fetches = @ \ {f},
          !.error = TRUE,
          !.last[f.kind] = IF f.n = front.issued[f.kind] THEN Failed ELSE @]

InitFront == FilesOff /\ TrackOff /\ GraphOff /\ SwitchOff /\ CallOff

NotFront == <<fileVars, trackVars, graphVars, switchVars, callVars, loadVars, noteVars,
              live, mapped, parked, dbp>>

FOnMessage == (\E message \in Messages : onmessage(message)) /\ UNCHANGED NotFront
FServerAnswers == (\E f \in front.fetches : serverAnswers(f)) /\ UNCHANGED NotFront
FLoadDispatch == (\E f \in front.fetches : loadDispatch(f)) /\ UNCHANGED NotFront
FLoadFails == (\E f \in front.fetches : loadFails(f)) /\ UNCHANGED NotFront

NextFront ==
    \/ FOnMessage
    \/ FServerAnswers
    \/ FLoadDispatch
    \/ FLoadFails

SpecFront == InitFront /\ [][NextFront]_vars

-----------------------------------------------------------------------------
(* SpecDatabase: the database child process (server.js).  process is what   *)
(* the operating system has, dbProcess / killed are the variable of         *)
(* server.js and the flag of the ChildProcess object (set when a signal was  *)
(* delivered), promise / timer belong to startDatabase, stop / killTimer to  *)
(* stopDatabase, start / shutdown are the positions of start() and of the   *)
(* signal handler.  After process.exit nothing of the server runs.          *)

Exited == dbp.start = "exit1" \/ dbp.shutdown = "exit0"

\* startDatabase(): spawn, the listeners, setTimeout(..., 10000).
startDatabase ==
    /\ dbp.start = "startDatabase"
    /\ dbp' = [dbp EXCEPT !.process = "starting", !.dbProcess = "set",
                           !.promise = "pending", !.timer = "armed",
                           !.start = "awaiting"]

\* spawn fails (no surreal binary): dbProcess.on('error') rejects.
spawnError ==
    /\ dbp.process = "starting"
    /\ ~Exited
    /\ dbp' = [dbp EXCEPT !.process = "failed",
                           !.promise = IF @ = "pending" THEN "rejected" ELSE @]

\* stdout prints 'Started web server': resolve().
readyLine ==
    /\ dbp.process = "starting"
    /\ dbp' = [dbp EXCEPT !.process = "running",
                           !.promise = IF @ = "pending" /\ ~Exited
                                       THEN "resolved" ELSE @]

\* The process ends (by itself, on SIGTERM or on SIGKILL); the 'close'
\* listeners run: dbProcess = null, and the one of stopDatabase resolves.
processCloses ==
    /\ \/ dbp.process \in {"starting", "running"}
       \/ dbp.process = "deaf" /\ dbp.killTimer = "killed"
    /\ dbp' = IF Exited
               THEN [dbp EXCEPT !.process = "closed"]
               ELSE [dbp EXCEPT !.process = "closed", !.dbProcess = "null",
                                !.stop = IF @ = "pending" THEN "resolved" ELSE @]

\* The process does not act on SIGTERM (it hangs, or handles the signal
\* without ending).
ignoresSigterm ==
    /\ dbp.process \in {"starting", "running"}
    /\ dbp.killed
    /\ dbp' = [dbp EXCEPT !.process = "deaf"]

\* The callback of the 10 s timer:
\* if (dbProcess && !dbProcess.killed) reject(...)
startTimeout ==
    /\ ~Exited
    /\ dbp.timer = "armed"
    /\ dbp' = [dbp EXCEPT !.timer = "fired",
                           !.promise = IF /\ dbp.dbProcess = "set" /\ ~dbp.killed
                                          /\ @ = "pending"
                                       THEN "rejected" ELSE @]

\* stopDatabase(): resolve at once without a process; otherwise the 'close'
\* listener, dbProcess.kill('SIGTERM') and setTimeout(..., 5000).  kill sets
\* killed when the signal was delivered, that is when the process exists.
stopDatabase ==
    /\ dbp.shutdown = "disconnect"
    /\ IF dbp.dbProcess = "null"
       THEN dbp' = [dbp EXCEPT !.stop = "resolved", !.shutdown = "awaiting"]
       ELSE dbp' = [dbp EXCEPT !.stop = "pending", !.killTimer = "armed",
                               !.shutdown = "awaiting",
                               !.killed = dbp.process \in {"starting", "running"}]

\* The callback of the 5 s timer:
\* if (dbProcess && !dbProcess.killed) { dbProcess.kill('SIGKILL'); resolve() }
killTimeout ==
    /\ ~Exited
    /\ dbp.killTimer = "armed"
    /\ IF dbp.dbProcess = "set" /\ ~dbp.killed
       THEN dbp' = [dbp EXCEPT !.killTimer = "killed", !.stop = "resolved"]
       ELSE dbp' = [dbp EXCEPT !.killTimer = "fired"]

\* start(): ensureDirectories, then await startDatabase(); after it the
\* connection, the load and server.listen, or the catch with process.exit(1).
applicationStart ==
    /\ ~Exited
    /\ \/ dbp.start = "none" /\ dbp' = [dbp EXCEPT !.start = "startDatabase"]
       \/ /\ dbp.start = "awaiting" /\ dbp.promise = "resolved"
          /\ dbp' = [dbp EXCEPT !.start = "listening"]
       \/ /\ dbp.start = "awaiting" /\ dbp.promise = "rejected"
          /\ dbp' = [dbp EXCEPT !.start = "exit1"]

\* process.on('SIGTERM' / 'SIGINT'): stopWatchers, await disconnect(),
\* await stopDatabase(), process.exit(0).
shutdown ==
    /\ ~Exited
    /\ \/ /\ dbp.start # "none" /\ dbp.shutdown = "none"
          /\ dbp' = [dbp EXCEPT !.shutdown = "disconnect"]
       \/ /\ dbp.shutdown = "awaiting" /\ dbp.stop = "resolved"
          /\ dbp' = [dbp EXCEPT !.shutdown = "exit0"]

InitDatabase == FilesOff /\ TrackOff /\ GraphOff /\ SwitchOff /\ CallOff

NotDatabase == <<fileVars, trackVars, graphVars, switchVars, callVars, loadVars, noteVars,
                 live, mapped, parked, front>>

DStart == applicationStart /\ UNCHANGED NotDatabase
DShutdown == shutdown /\ UNCHANGED NotDatabase
DStartDatabase == startDatabase /\ UNCHANGED NotDatabase
DSpawnError == spawnError /\ UNCHANGED NotDatabase
DReadyLine == readyLine /\ UNCHANGED NotDatabase
DProcessCloses == processCloses /\ UNCHANGED NotDatabase
DIgnoresSigterm == ignoresSigterm /\ UNCHANGED NotDatabase
DStartTimeout == startTimeout /\ UNCHANGED NotDatabase
DStopDatabase == stopDatabase /\ UNCHANGED NotDatabase
DKillTimeout == killTimeout /\ UNCHANGED NotDatabase

NextDatabase ==
    \/ DStart
    \/ DShutdown
    \/ DStartDatabase
    \/ DSpawnError
    \/ DReadyLine
    \/ DProcessCloses
    \/ DIgnoresSigterm
    \/ DStartTimeout
    \/ DStopDatabase
    \/ DKillTimeout

SpecDatabase == InitDatabase /\ [][NextDatabase]_vars

-----------------------------------------------------------------------------
(* C1. Atomic save: while and after an entity whose file exists is saved,   *)
(* whatever fs call fails, the target file exists and holds a complete      *)
(* document (the previous or the new one); a save that failed after the     *)
(* backup rename has put the backup back and rejects.                       *)

C1_AtomicSave ==
    /\ \A p \in NodePaths : p \in DOMAIN files /\ files[p] # Partial
    /\ \A t \in Pending :
          t.pc = "rejected" => t.path \in DOMAIN files

(* C2. Loop prevention: the watcher event of an own write (save or delete)  *)
(* that is delivered within the 1 s grace window of the write's mark is     *)
(* skipped by the handler (no upsertFromFile/deleteFromFile, no             *)
(* data-change notification), whatever other own writes happened.           *)

C2_OwnWriteIgnored ==
    (handled.own /\ handled.inGrace) => handled.skipped

(* C3. Cascade delete: once deleteNode(n) has returned and the file tasks   *)
(* it started have finished, n and every link that had n as source_id or    *)
(* target_id are gone from the cache and from the files, every other cache  *)
(* entry and file is as it was, and deletedLinks is the number of links     *)
(* that referenced n.  (The call is taken by itself: no file task was       *)
(* pending when it began and no other call ran meanwhile.)                  *)

Referencing(c, n) ==
    {l \in DOMAIN c : l[1] = "links" /\ (c[l].source_id = n \/ c[l].target_id = n)}

CascadeDone == dcall.pc = "returned" /\ dcall.alone /\ FilesQuiet

C3_CascadeDelete ==
    CascadeDone =>
        LET n == dcall.id
            refs == Referencing(dcall.preCache, n)
            gone == {n} \cup refs
            gonePaths == {getNodeFilePath(n)} \cup {getLinkFilePath(l) : l \in refs}
        IN
        /\ cache = [e \in DOMAIN dcall.preCache \ gone |-> dcall.preCache[e]]
        /\ files = [p \in DOMAIN dcall.preFiles \ gonePaths |-> dcall.preFiles[p]]
        /\ dcall.deletedLinks = Cardinality(refs)

\* n had a link from it and a link to it, and an unrelated link is still there.
C3_Witness ==
    /\ CascadeDone
    /\ dcall.deletedLinks >= 1
    /\ Referencing(dcall.preCache, dcall.id) # {}
    /\ getNodeFilePath(dcall.id) \in DOMAIN dcall.preFiles
    /\ CachedLinks # {}
    /\ \E p \in LinkPaths : p \in DOMAIN files

(* C4. Referential integrity at creation: a link enters the cache through   *)
(* createLink only when its source_id and its target_id both name a node    *)
(* that is in the cache at that moment.                                     *)

C4_LinkEndpointsExist ==
    [][\A l \in LinkIds :
          (l \notin DOMAIN cache /\ l \in DOMAIN cache')
          => (cache'[l].source_id \in DOMAIN cache /\ cache'[l].target_id \in DOMAIN cache)]_vars

(* C5. Hot-swap recovery: when a switch from S to S' has failed in a step   *)
(* after validation (clearing the cache, populating it, restarting the      *)
(* watchers) and performHotReload has returned its error, config.current is *)
(* S, the file service and its watchers are on the directory they were on   *)
(* before the call, and the cache holds the entities of the files there.    *)

C5_RecoveryRestoresSource ==
    (hr.pc = "failed" /\ hr.saved) =>
        /\ config.current = hr.from
        /\ fsDir = hr.fromDir
        /\ watch.on = hr.fromDir
        /\ DOMAIN cache = disk[hr.fromDir]

(* C6. Rejection: when switchSource has thrown for an unknown id or a path  *)
(* that fails validation and performHotReload has returned the error,       *)
(* config.current is what it was and the file service still uses and        *)
(* watches the directory it used before the call.                           *)

C6_RejectionLeavesSource ==
    (hr.pc = "failed" /\ hr.rejected) =>
        /\ config.current = hr.from
        /\ fsDir = hr.fromDir
        /\ watch.on = hr.fromDir

(* C7. Single current source: config.current always names an entry of       *)
(* config.sources, and while the process runs and no switch is in progress  *)
(* the directory of the file service is the directory of that entry.        *)

C7_SingleCurrentSource ==
    /\ config.current \in DOMAIN config.sources
    /\ (proc = "up" /\ hr.pc \in {"idle", "done", "failed"})
          => fsDir = Resolve(config.sources[config.current])

(* C8. Hot-swap barrier: while performHotReload clears the cache, the old   *)
(* watchers are fully stopped (no watcher is on, no close() is pending),    *)
(* and while it loads the files of the new source the clear has completed.  *)

C8_Barrier ==
    /\ hr.pc \in {"clearLinks", "clearNodes"} => watch = NoWatch
    /\ hr.pc = "load" => hr.cleared

(* C9. Cache after a switch: at the moment a switch completes, the cache    *)
(* holds exactly the entities of the valid files loadAllFiles found in the  *)
(* new source, whatever handler of the previous source was in flight.       *)

C9_CacheAfterSwitch ==
    [][(hr.pc = "restart" /\ hr'.pc = "done") => DOMAIN cache' = hr.loaded]_vars

(* C10. Cache after startup: when start() has populated the cache, the      *)
(* cache holds exactly the entities of the valid files of the directory of  *)
(* the file service.                                                        *)

C10_CacheAfterStart ==
    [][(proc = "down" /\ proc' = "up") => DOMAIN cache' = disk'[fsDir']]_vars


(* C11. Eventual consistency of the files with the cache: when no call is   *)
(* in progress and every background file task has finished (none of them    *)
(* failed: no fs call fails in SpecGraph other than with ENOENT), an entity  *)
(* file exists exactly when the cache holds the entity, and its content is   *)
(* the cache's record.                                                       *)

GraphQuiet == FilesQuiet /\ dcall.pc \in {"idle", "returned"}

EntityPath(id) == IF id[1] = "nodes" THEN getNodeFilePath(id) ELSE getLinkFilePath(id)

C11_FilesFollowCache ==
    GraphQuiet =>
        \A id \in NodeIds \cup LinkIds :
            /\ EntityPath(id) \in DOMAIN files <=> id \in DOMAIN cache
            /\ id \in DOMAIN cache => files[EntityPath(id)] = cache[id]

(* C12. A mutation call puts its result into the cache before it returns   *)
(* and does not wait for the disk: when it returns, the cache holds the     *)
(* returned record, the save it started has not issued its first fs call    *)
(* and no file has changed; whatever the background tasks do afterwards,     *)
(* succeed or fail, changes neither the cache nor the returned result.      *)

SpawnedSaves ==
    {t \in BagToSet(tasks') : t.op = "save" /\ CopiesIn(t, tasks') > CopiesIn(t, tasks)}

MutationReturns == ret'.n > ret.n /\ ret'.call # "deleteNodeFile"

Resolved(t) == [t EXCEPT !.pc = "resolved"]

C15_DeleteIdempotent ==
    [][\A t \in Pending :
          (/\ t.op = "delete" /\ t.pc = "unlink"
           /\ t.path \notin DOMAIN files
           /\ CopiesIn(t, tasks') < CopiesIn(t, tasks))
          => /\ files' = files
             /\ CopiesIn(Resolved(t), tasks') > CopiesIn(Resolved(t), tasks)]_vars

\* deleteNodeFile was called twice for a node that never had a file; both
\* calls have completed.
C15_Witness ==
    /\ used = {}
    /\ files = <<>>
    /\ BagCardinality(tasks) = 2
    /\ \A t \in Pending : t.op = "delete" /\ t.pc = "resolved"

(* C16. Validation before any I/O: a createNode without a non-empty label   *)
(* and a createLink without source_id or target_id add nothing to the cache   *)
(* and start no file write.                                                  *)

ValidEntity(e) ==
    IF e.id[1] = "nodes" THEN e.label # NoLabel
    ELSE e.source_id # NoEndpoint /\ e.target_id # NoEndpoint

C16_ValidatedBeforeIO ==
    [][/\ \A id \in DOMAIN cache' \ DOMAIN cache : ValidEntity(cache'[id])
       /\ \A t \in SpawnedSaves : ValidEntity(t.content)]_vars

(* C13. Partial load resilience: whatever the nodes and links directories   *)
(* hold, loadAllFiles returns; every .json file that parses and has its      *)
(* required fields is returned in nodes / links, every other .json file      *)
(* yields exactly one entry of errors that names it, and .tmp / .backup      *)
(* files (and files that are not .json) are neither loaded nor reported.     *)

Range(q) == {q[i] : i \in DOMAIN q}
Count(q, v) == Cardinality({i \in DOMAIN q : q[i] = v})

\* The text is a document with the required fields of its kind.
HasRequiredFields(text, kind) ==
    /\ "json" \in DOMAIN text
    /\ text.json # JsonNull
    /\ RequiredFields(kind) \subseteq DOMAIN text.json
    /\ kind = "node" => text.json.label # NoLabel

JsonPaths(kind) == {p \in DOMAIN files : p[1] = kind}
GoodPaths(kind) == {p \in JsonPaths(kind) : HasRequiredFields(files[p], kind)}

ErrorsNaming(r, e) == Cardinality({i \in DOMAIN r.errors : r.errors[i].file = e})

LoadedAsClaimed(r) ==
    /\ \A kind \in {"node", "link"} :
          LET got == IF kind = "node" THEN r.nodes ELSE r.links IN
          /\ Len(got) = Cardinality(GoodPaths(kind))
          /\ \A p \in GoodPaths(kind) :
                /\ files[p].json \in Range(got)
                /\ ErrorsNaming(r, DirEntry(p, "json")) = 0
          /\ \A p \in JsonPaths(kind) \ GoodPaths(kind) :
                ErrorsNaming(r, DirEntry(p, "json")) = 1
    /\ \A i \in DOMAIN r.errors : r.errors[i].file.ext = "json"

C13_PartialLoad ==
    [][loaded'.n > loaded.n => LoadedAsClaimed(loaded'.result)]_vars

\* A load has met a valid node, two bad .json files, a .tmp and a .backup
\* leftover, and has returned the one and reported the two.
C13_Witness ==
    /\ loaded.n > 0
    /\ loaded.result = loadAllFilesJson
    /\ DOMAIN tmps # {} /\ DOMAIN baks # {} /\ NotesPath \in DOMAIN files
    /\ Len(loaded.result.nodes) = 1
    /\ Len(loaded.result.errors) = 2

(* C14. Save/load round trip: after saveNode / saveLink of a valid entity    *)
(* (string ids, non-empty label, x a number or null) has completed,          *)
(* loadAllFiles returns an entity equal to it field by field and reports no   *)
(* error for its file.                                                       *)

IsString(id) == Len(id) = 2

ValidForSave(e) ==
    /\ IsString(e.id)
    /\ IF e.id[1] = "nodes"
       THEN e.label # NoLabel /\ e.x # Undefined
       ELSE IsString(e.source_id) /\ IsString(e.target_id)

SavedCompleted == saved # NoEntity /\ FilesQuiet

C14_RoundTrip ==
    [][(loaded'.n > loaded.n /\ SavedCompleted /\ ValidForSave(saved)) =>
          LET r == loaded'.result IN
          /\ saved \in Range(IF saved.id[1] = "nodes" THEN r.nodes ELSE r.links)
          /\ ErrorsNaming(r, DirEntry(EntityPath(saved.id), "json")) = 0]_vars

\* A valid node with x = null was saved over a file that held something else,
\* and the load that followed returned it, with no error at all.
C14_Witness ==
    /\ loaded.n > 0
    /\ SavedCompleted
    /\ saved = [id |-> NodeA, label |-> 1, x |-> Null]
    /\ saved \in Range(loaded.result.nodes)
    /\ Len(loaded.result.errors) = 0

(* C17. External add/change: when a handler has read a valid entity from an *)
(* added or changed file, its upsert leaves the cache holding that entity    *)
(* with the values of the file, and the handler then emits exactly one       *)
(* notification (added / updated) with the entity's id; a notification is    *)
(* emitted only by a handler whose cache query has completed.                *)

Leaves(h) == h \in inflight /\ h \notin inflight'
GoesOn(h, pc) == [h EXCEPT !.pc = pc] \in inflight'

ValidData(data, kind) ==
    /\ data # JsonNull
    /\ RequiredFields(kind) \subseteq DOMAIN data
    /\ kind = "node" => data.label # NoLabel

HoldsValuesOf(c, data) ==
    /\ data.id \in DOMAIN c
    /\ \A f \in DOMAIN data : f \in DOMAIN c[data.id] /\ c[data.id][f] = data[f]

Notification(type, operation, id) ==
    [n |-> emitted.n + 1, last |-> [type |-> type, operation |-> operation, id |-> id]]

C17_ExternalUpsert ==
    [][/\ \A h \in inflight :
            /\ (h.pc = "upsert" /\ Leaves(h) /\ ValidData(h.data, h.path[1])) =>
                   /\ HoldsValuesOf(cache', h.data)
                   /\ GoesOn(h, "emit")
                   /\ emitted' = emitted
            /\ (h.pc = "emit" /\ Leaves(h)) =>
                   emitted' = Notification(h.path[1],
                                           IF h.kind = "add" THEN "added" ELSE "updated",
                                           h.data.id)
       /\ emitted' # emitted =>
             \E h \in inflight : h.pc \in {"emit", "emitDeleted"} /\ Leaves(h)]_vars

(* C18. External removal: the handler of a removed entity file deletes the  *)
(* entity whose id is the table of the directory and the suffix of the file  *)
(* name, leaves every other cache entry as it was, and then emits exactly    *)
(* one deleted notification with that id.                                    *)

FilenameId(p) == <<IF p[1] = "node" THEN "nodes" ELSE "links", p[2]>>

RefersTo(rec, id) ==
    \/ "source_id" \in DOMAIN rec /\ rec.source_id = id
    \/ "target_id" \in DOMAIN rec /\ rec.target_id = id

C19_CascadeOnWatcherDelete ==
    [][\A h \in inflight :
          (h.pc = "delete" /\ Leaves(h) /\ h.path[1] = "node") =>
              \A l \in DOMAIN cache' : l[1] = "links" => ~RefersTo(cache'[l], h.id)]_vars

(* C20. Bad watched files are dropped: a handler whose file is not JSON or   *)
(* lacks a required field ends without having changed the cache and without  *)
(* a notification.                                                           *)

BadFile(h) ==
    \/ h.pc = "read" /\ h.path \in DOMAIN files /\ "json" \notin DOMAIN files[h.path]
    \/ h.pc \in {"upsert", "emit"} /\ ~ValidData(h.data, h.path[1])

C20_BadFilesDropped ==
    [][\A h \in inflight :
          (Leaves(h) /\ BadFile(h)) => cache' = cache /\ emitted' = emitted]_vars

(* C21. stopWatchers releases before returning: at the return of            *)
(* stopWatchers both watchers are fully closed and no handler is in flight,  *)
(* and while no watcher is on no handler changes the cache.                  *)

StopReturns == proc = "up" /\ proc' = "up" /\ watch.on # "none" /\ watch'.on = "none"

HandlerRuns == proc' = "up" /\ inflight' # inflight /\ inflight' \subseteq inflight

C21_StopReleases ==
    [][/\ StopReturns => ~watch'.closing /\ inflight' = {}
       /\ (proc = "up" /\ watch.on = "none") => ~HandlerRuns]_vars

(* C22. Watcher start/stop idempotence: whatever the sequence of            *)
(* startWatchers and stopWatchers calls, a directory has at most one live    *)
(* watcher pair, so that an outside change is handled once, and after a      *)
(* stopWatchers nothing is watched.                                          *)

C22_WatchersIdempotent ==
    /\ \A d \in Dirs : CopiesIn(d, live) <= 1
    /\ \A e \in events : e.times <= 1
    /\ watch.on = "none" => live = EmptyBag

(* C23. Write-tracker marks expire: every mark of recentWrites belongs to   *)
(* an own write or delete that is still in progress or has a cleanup timer   *)
(* pending for its path, so that no mark stays forever.                      *)

C23_MarksExpire ==
    \A p \in DOMAIN recentWrites :
        \/ \E w \in writes : w.path = p
        \/ \E tm \in timers : tm.path = p

\* C24: in every successful switch current = id has been written to the
\* config before performHotReload returns the source; the system/reload
\* notification is broadcast only after the files of the new source have been
\* upserted and the watchers are started on the new directory; a switch that
\* fails broadcasts no reload.
NewDirectory == Resolve(hr.cfg.sources[hr.target])
Announces == ~hr.reload /\ hr'.reload
ReturnsSource == hr.pc # "done" /\ hr'.pc = "done"
SwitchFailed == hr.pc \in {"recover", "recoverWatch", "recoverLoad", "recoverPopulate", "failed"}

C24_AnnounceOrder ==
    [][/\ ReturnsSource => hr.saved /\ hr.target \in DOMAIN hr.cfg.sources
       /\ Announces => /\ hr.saved /\ hr.cleared
                       /\ hr.pc = "restart"
                       /\ hr.loaded \subseteq HomeIds(NewDirectory)
                       /\ fsDir = NewDirectory
                       /\ watch'.on = NewDirectory
       /\ SwitchFailed' => ~hr'.reload]_vars

\* C25: when a switch fails and a step of the recovery fails too, what
\* performHotReload throws is the failure of the recovery, and no watcher is
\* running.
RecoveryFails == hr.pc # "failed" /\ hr'.pc = "failed" /\ hr'.recoveryError

C25_DegradedState ==
    [][RecoveryFails => /\ hr'.thrown = "recoveryError"
                        /\ watch'.on = "none"]_vars

\* C26: removeSource throws and leaves the config as it is when id is
\* "default", when id is the current source of the config it read, or when id
\* is not a source of that config; the config always holds the source
\* "default" and the source current names.
RemoveAnswers == scall.kind = "remove" /\ scall.pc = "save" /\ scall'.pc = "idle"
MustReject ==
    \/ scall.id = "default"
    \/ scall.id = scall.cfg.current
    \/ scall.id \notin DOMAIN scall.cfg.sources

C26_RemoveGuards ==
    [][/\ (RemoveAnswers /\ MustReject) => ret'.value # "removed" /\ config' = config
       /\ "default" \in DOMAIN config'.sources
       /\ config'.current \in DOMAIN config'.sources]_vars

\* The second part of C26 alone, as a state predicate.
DefaultAndCurrentKept ==
    /\ "default" \in DOMAIN config.sources
    /\ config.current \in DOMAIN config.sources

\* C27: addSource(id, data) with a valid path stores data under id when the
\* config has no source id, otherwise under the first id-k it has no source
\* for, returns that id, and leaves the sources there were and current as
\* they are; with an invalid path it throws and leaves the config as it is.
AddAnswers == scall.kind = "add" /\ scall.pc = "save" /\ scall'.pc = "idle"
Unused(id) == {k \in 1..MaxCounter : Numbered(id, k) \notin DOMAIN scall.cfg.sources}
ExpectedId ==
    IF scall.id \notin DOMAIN scall.cfg.sources THEN scall.id
    ELSE Numbered(scall.id, CHOOSE k \in Unused(scall.id) : \A d \in Unused(scall.id) : k <= d)

C27_AddDisambiguates ==
    [][AddAnswers =>
          IF validateSourcePath(scall.path)
          THEN /\ ret'.value = ExpectedId
               /\ ExpectedId \in DOMAIN config'.sources
               /\ config'.sources[ExpectedId] = scall.path
               /\ \A q \in DOMAIN config.sources :
                     q \in DOMAIN config'.sources /\ config'.sources[q] = config.sources[q]
               /\ config'.current = config.current
          ELSE /\ ret'.value = "Invalid data source path"
               /\ config' = config]_vars

\* C28: for every node id nodes:<suffix> and link id links:<suffix>, the id
\* extractIdFromFilename gives for the file name of the id, with the table of
\* the id, is the id; no other id of the same table has the same file name.
FilenameOf(table, idStr) ==
    IF table = "nodes" THEN getNodeFilename(idStr) ELSE getLinkFilename(idStr)

C28_FilenameRoundTrip ==
    /\ mapped.stage = "back" => mapped.back = mapped.id
    /\ mapped.stage \in {"file", "back"} =>
          \A suffix \in Suffixes :
              FilenameOf(mapped.table, idText(mapped.table, suffix)) = mapped.file
                  => suffix = mapped.suffix

\* C29: every successful create, update or delete made through the REST API
\* is followed by a data-change broadcast.  The routes and the mutation calls
\* emit nothing themselves; the one place a data-change is emitted is the
\* watcher handler that the call's own file write or unlink sets off, so the
\* claim is that this handler never returns early.
C29_MutationBroadcast == handled.own => ~handled.skipped

\* C30: clearAllData has deleted every link before it deletes a node (its
\* first query removes links only and leaves none), and when it returns the
\* cache holds no node and no link.
LinksDeleted == hr.pc = "clearLinks" /\ hr'.pc = "clearNodes"
ClearReturns == hr.pc = "clearNodes" /\ hr'.pc = "load"

C30_ClearLinksFirst ==
    [][/\ LinksDeleted => CachedLinks' = {} /\ CachedNodes' = CachedNodes
       /\ ClearReturns => DOMAIN cache' = {}]_vars

\* C31: while an own write of a path that started less than GRACE_MS ago is
\* in progress, or its watcher event has not been handled yet, isOurWrite of
\* the path is true: no cleanup timer of an earlier write has taken the mark.
FreshOwnWrites ==
    {w \in writes : now - w.mark < GRACE_MS}
        \cup {e \in events : e.mark # NoMark /\ now - e.mark < GRACE_MS}

C31_LaterMarkKept == \A w \in FreshOwnWrites : isOurWrite(w.path)

\* C32: when two saves of the same entity have both finished, however their
\* atomicWrite steps were interleaved, neither has thrown, the file holds the
\* content of one of the two, and no .tmp and no .backup file of it is left.
SavesOf(p) == {t \in Pending : t.op = "save" /\ t.path = p}
Finished(p) == \A t \in SavesOf(p) : t.pc \in {"resolved", "rejected"}
TwoSaves(p) ==
    \/ Cardinality(SavesOf(p)) = 2
    \/ \E t \in SavesOf(p) : CopiesIn(t, tasks) = 2

C32_OverlappingSaves ==
    \A p \in NodePaths :
        (TwoSaves(p) /\ Finished(p)) =>
            /\ \A t \in SavesOf(p) : t.pc = "resolved"
            /\ p \in DOMAIN files
            /\ \E t \in SavesOf(p) : files[p] = t.content
            /\ p \notin DOMAIN tmps
            /\ p \notin DOMAIN baks

\* C33: once deleteNode / deleteLink has returned and every background file
\* task has finished, the entity it deleted has no file, whatever save of
\* the same id was in flight when the delete ran.  (An id is handed out
\* once: an id that was used and is not in the cache was deleted.)
Deleted == used \ DOMAIN cache

C33_DeletedStaysDeleted ==
    GraphQuiet => \A id \in Deleted : EntityPath(id) \notin DOMAIN files

\* C34: the handler of an event that an outside process caused never returns
\* early as for an own write, so the change reaches the cache, also when the
\* system wrote the same path less than GRACE_MS before the event fires.
C34_ExternalEditHandled ==
    (handled.kind # "none" /\ ~handled.own) => ~handled.skipped

\* C35: no outside change is lost around the start of the watchers.  When
\* the watchers of a hot swap start, every file of the new directory that
\* was created or removed after loadAllFiles read the directory has a
\* handler in flight that will bring it to the cache; for any other such
\* change no event will ever be reported.
WatchersStart == hr.pc = "restart" /\ hr'.pc = "done"
ChangedSinceLoad == (disk[fsDir] \ hr.loaded) \cup (hr.loaded \ disk[fsDir])

C35_NoChangeLost ==
    [][WatchersStart => \A id \in ChangedSinceLoad : \E h \in inflight' : h.id = id]_vars

\* C36: the id stored in a file the system upserts from is the id its file
\* name stands for, so that the removal of the file, which deletes the id of
\* the file name, takes the entity of the file out of the cache.
Upserted == {h \in inflight : h.pc = "emit"}

C36_NameAndIdAgree == \A h \in Upserted : h.data.id = FilenameId(h.path)

\* C37: no lost update on the source config.  Whatever calls overlap, the
\* config a successful addSource, removeSource or switchSource writes is the
\* config as it is at that moment with the effect of the call applied, so
\* that no effect of another call is undone.
SwitchSaves == ~hr.saved /\ hr'.saved
AddSucceeds == AddAnswers /\ validateSourcePath(scall.path)
RemoveSucceeds == RemoveAnswers /\ ret'.value = "removed"

C37_NoLostUpdate ==
    [][/\ SwitchSaves => config' = [config EXCEPT !.current = hr.target]
       /\ AddSucceeds => config' = [config EXCEPT !.sources = Put(@, ret'.value, scall.path)]
       /\ RemoveSucceeds => config' = [config EXCEPT !.sources = Drop(@, scall.id)]]_vars

\* C38: once every fetch the data-change messages set off has completed,
\* state.graph.nodes (state.graph.links) is the response of the fetch that
\* was issued last; the response of an earlier fetch never replaces it.
C38_LatestFetchShown ==
    front.fetches = {} =>
        \A k \in {"nodes", "links"} :
            front.last[k] \notin {NoBody, Failed} => front.graph[k] = front.last[k]

\* C39: startDatabase always settles: when its 10 s timer has run, the
\* promise has been resolved (ready line) or rejected (spawn error, not
\* ready in time, process gone before it was ready).
C39_StartSettles == dbp.timer = "fired" => dbp.promise \in {"resolved", "rejected"}

\* C40: stopDatabase always resolves: when its 5 s timer has run, the
\* promise has been resolved, by the close of the process or after SIGKILL.
C40_StopResolves == dbp.killTimer \in {"fired", "killed"} => dbp.stop = "resolved"

=============================================================================
